---------------------------- MODULE Spec2Model ----------------------------
(***************************************************************************)
(* Model of the Hunta search backend: the /search request handler, the     *)
(* search service (enhancement, fan-out over the registered sources,       *)
(* deduplication, scoring, ranking, currency conversion) and the query     *)
(* enhancement service.                                                    *)
(*                                                                         *)
(* Representation.  A JavaScript string is a sequence of lexemes; a lexeme *)
(* is a TLA+ string that no modelled operation looks inside.  Titles,      *)
(* descriptions, search terms and prices are spelled character by          *)
(* character; a URL is <<scheme, host lexemes ..., path>>.  NULL stands    *)
(* for null/undefined.  Money amounts are integers counted in hundredths   *)
(* of a unit, scores are integers counted in hundredths.                   *)
(***************************************************************************)
EXTENDS Integers, Sequences, FiniteSets, TLC

\* null/undefined where a string is expected
NULL == <<"<null>">>

\* an optional number: null, or the number v
NoNum == [ok |-> FALSE, v |-> 0]
Num(n) == [ok |-> TRUE, v |-> n]

POUND == "PND"
EURO == "EUR"
DOLLAR == "$"
TAB == "TAB"

(***************************************************************************)
(* Generic sequence helpers (Array.prototype.filter / map / includes).     *)
(***************************************************************************)
RECURSIVE SelectIdx(_, _, _)
\* indices i of s, in order, with keep[i]
SelectIdx(s, keep, i) ==
  IF i > Len(s) THEN <<>>
  ELSE (IF keep[i] THEN <<i>> ELSE <<>>) \o SelectIdx(s, keep, i + 1)

RECURSIVE Flatten(_)
Flatten(ss) == IF ss = <<>> THEN <<>> ELSE Head(ss) \o Flatten(Tail(ss))

Range(s) == {s[i] : i \in DOMAIN s}

IsPrefixAt(needle, hay, i) ==
  /\ i + Len(needle) - 1 <= Len(hay)
  /\ \A k \in 1..Len(needle) : hay[i + k - 1] = needle[k]

\* String.prototype.includes
Includes(hay, needle) ==
  \E i \in 1..(Len(hay) + 1) : IsPrefixAt(needle, hay, i)

StartsWith(hay, needle) == IsPrefixAt(needle, hay, 1)

(***************************************************************************)
(* Characters.                                                             *)
(***************************************************************************)
Digits == {"0", "1", "2", "3", "4", "5", "6", "7", "8", "9"}

DigitVal(c) ==
  CASE c = "0" -> 0 [] c = "1" -> 1 [] c = "2" -> 2 [] c = "3" -> 3
    [] c = "4" -> 4 [] c = "5" -> 5 [] c = "6" -> 6 [] c = "7" -> 7
    [] c = "8" -> 8 [] c = "9" -> 9

Whitespace == {" ", TAB}

\* String.prototype.toLowerCase on one character
LowerChar(c) ==
  CASE c = "A" -> "a" [] c = "B" -> "b" [] c = "C" -> "c" [] c = "D" -> "d"
    [] c = "E" -> "e" [] c = "O" -> "o" [] c = "P" -> "p" [] c = "R" -> "r"
    [] c = "S" -> "s" [] c = "T" -> "t" [] c = "U" -> "u" [] c = "X" -> "x"
    [] OTHER -> c

toLowerCase(s) == [i \in DOMAIN s |-> LowerChar(s[i])]

RECURSIVE CollapseWs(_)
\* replace(/\s+/g, ' '): every maximal run of whitespace becomes one space
CollapseWs(s) ==
  IF s = <<>> THEN <<>>
  ELSE IF Head(s) \in Whitespace
       THEN IF Len(s) > 1 /\ s[2] \in Whitespace
            THEN CollapseWs(Tail(s))
            ELSE <<" ">> \o CollapseWs(Tail(s))
       ELSE <<Head(s)>> \o CollapseWs(Tail(s))

RECURSIVE TrimStart(_)
TrimStart(s) ==
  IF s # <<>> /\ Head(s) \in Whitespace THEN TrimStart(Tail(s)) ELSE s

RECURSIVE TrimEnd(_)
TrimEnd(s) ==
  IF s # <<>> /\ s[Len(s)] \in Whitespace
  THEN TrimEnd(SubSeq(s, 1, Len(s) - 1)) ELSE s

\* String.prototype.trim
trim(s) == TrimEnd(TrimStart(s))

normalizeTextNoCase(s) ==
  IF s = NULL THEN <<>> ELSE trim(CollapseWs(s))

\* normalizeText: (s || '').toLowerCase().replace(/\s+/g, ' ').trim()
normalizeText(s) ==
  IF s = NULL THEN <<>> ELSE trim(CollapseWs(toLowerCase(s)))

RECURSIVE SplitSpace(_, _)
\* String.prototype.split(' '): cur is the piece being collected
SplitSpace(s, cur) ==
  IF s = <<>> THEN <<cur>>
  ELSE IF Head(s) = " " THEN <<cur>> \o SplitSpace(Tail(s), <<>>)
       ELSE SplitSpace(Tail(s), Append(cur, Head(s)))

\* .filter(Boolean) on an array of strings: drops '' and null
FilterBoolean(ss) ==
  LET keep == [i \in DOMAIN ss |-> ss[i] # NULL /\ ss[i] # <<>>]
      idx == SelectIdx(ss, keep, 1)
  IN  [k \in DOMAIN idx |-> ss[idx[k]]]

(***************************************************************************)
(* URLs.                                                                   *)
(***************************************************************************)
Schemes == {"http://", "https://"}
PathLexemes == {"/", "/p/1", "/p/2", "/itm/1", "/item/1"}

RECURSIVE HostOf(_)
\* the lexemes of a URL (scheme removed) up to its path
HostOf(rest) ==
  IF rest = <<>> \/ Head(rest) \in PathLexemes THEN <<>>
  ELSE <<Head(rest)>> \o HostOf(Tail(rest))

extractDomainKeepWww(url) ==
  IF url = NULL \/ url = <<>> \/ Head(url) \notin Schemes \/ HostOf(Tail(url)) = <<>>
  THEN <<>>
  ELSE HostOf(Tail(url))

\* extractDomain: new URL(url).hostname.replace(/^www\./, ''), '' when the
\* URL constructor throws
extractDomain(url) ==
  IF url = NULL \/ url = <<>> \/ Head(url) \notin Schemes \/ HostOf(Tail(url)) = <<>>
  THEN <<>>
  ELSE LET host == HostOf(Tail(url))
       IN  IF Head(host) = "www." THEN Tail(host) ELSE host

(***************************************************************************)
(* Listings.  A raw listing is a record with the fields a source reports;  *)
(* a field the source left out is NULL.  A null entry of a result array is *)
(* NullEntry.  postedAt is absent, an unparsable string, or an ISO date     *)
(* given by its time in hours.                                             *)
(***************************************************************************)
NullEntry == [null |-> TRUE]
IsNullEntry(e) == "null" \in DOMAIN e

NoDate == [kind |-> "absent", ts |-> 0]
BadDate == [kind |-> "unparsable", ts |-> 0]
IsoDate(h) == [kind |-> "iso", ts |-> h]

Listing(t, p, l, img, src, d, at) ==
  [title |-> t, price |-> p, link |-> l, image |-> img, source |-> src,
   description |-> d, postedAt |-> at]

\* JavaScript truthiness of a string-or-null value
Truthy(v) == v # NULL /\ v # <<>>

(***************************************************************************)
(* Price parsing: amounts are counted in hundredths.                       *)
(***************************************************************************)
RemoveCommas(s) ==
  LET keep == [i \in DOMAIN s |-> s[i] # ","]
      idx == SelectIdx(s, keep, 1)
  IN  [k \in DOMAIN idx |-> s[idx[k]]]

RECURSIVE DigitRunEnd(_, _)
\* last index of the maximal run of digits of s that starts at i
DigitRunEnd(s, i) ==
  IF i < Len(s) /\ s[i + 1] \in Digits THEN DigitRunEnd(s, i + 1) ELSE i

RECURSIVE DigitsValue(_, _, _)
\* value of the decimal numeral s[i..j]
DigitsValue(s, i, j) ==
  IF j < i THEN 0 ELSE 10 * DigitsValue(s, i, j - 1) + DigitVal(s[j])

parsePriceNumberFirstCharOnly(str) ==
  IF str = NULL \/ str = <<>> THEN NoNum
  ELSE IF str[1] \in Digits THEN Num(100 * DigitVal(str[1])) ELSE NoNum

\* parsePriceNumber on a string: the leftmost match of
\* /(-?\d+(?:\.\d{1,2})?)/ after removing commas, or null
parsePriceNumber(str) ==
  IF str = NULL \/ str = <<>> THEN NoNum
  ELSE
    LET s == RemoveCommas(str)
        ds == {i \in DOMAIN s : s[i] \in Digits}
    IN  IF ds = {} THEN NoNum
        ELSE
          LET d == CHOOSE i \in ds : \A k \in ds : i <= k
              neg == d > 1 /\ s[d - 1] = "-"
              e == DigitRunEnd(s, d)
              hasFrac == e + 2 <= Len(s) /\ s[e + 1] = "." /\ s[e + 2] \in Digits
              two == hasFrac /\ e + 3 <= Len(s) /\ s[e + 3] \in Digits
              frac == IF ~hasFrac THEN 0
                      ELSE IF two THEN 10 * DigitVal(s[e + 2]) + DigitVal(s[e + 3])
                           ELSE 10 * DigitVal(s[e + 2])
              mag == 100 * DigitsValue(s, d, e) + frac
          IN  Num(IF neg THEN 0 - mag ELSE mag)

(***************************************************************************)
(* Ranking helpers.                                                        *)
(***************************************************************************)
RECURSIVE InsertAsc(_, _)
InsertAsc(x, sorted) ==
  IF sorted = <<>> THEN <<x>>
  ELSE IF x < Head(sorted) THEN <<x>> \o sorted
       ELSE <<Head(sorted)>> \o InsertAsc(x, Tail(sorted))

RECURSIVE SortAsc(_)
\* nums.slice().sort((x, y) => x - y)
SortAsc(nums) ==
  IF nums = <<>> THEN <<>>
  ELSE InsertAsc(nums[Len(nums)], SortAsc(SubSeq(nums, 1, Len(nums) - 1)))

medianUnsorted(nums) ==
  IF nums = <<>> THEN NoNum ELSE Num(nums[(Len(nums) \div 2) + 1])

\* median: a[Math.floor(a.length / 2)] of the ascending copy, null when empty
median(nums) ==
  LET a == SortAsc(nums)
  IN  IF a = <<>> THEN NoNum ELSE Num(a[(Len(a) \div 2) + 1])

Abs(x) == IF x < 0 THEN 0 - x ELSE x
Min(a, b) == IF a < b THEN a ELSE b
Max(a, b) == IF a > b THEN a ELSE b

Neutral == [neutral |-> TRUE, diff |-> 0, med |-> 1]

priceClosenessScoreNoNeutral(amount, med) ==
  IF ~med.ok \/ med.v = 0 THEN Neutral
  ELSE [neutral |-> FALSE, diff |-> Abs(amount.v - med.v), med |-> med.v]

\* priceClosenessScore: the neutral 0.5 when !amount || !med, otherwise
\* max(0, 1 - min(1, diff / (med + 1e-6))), kept as the pair (diff, med)
priceClosenessScore(amount, med) ==
  IF ~amount.ok \/ amount.v = 0 \/ ~med.ok \/ med.v = 0 THEN Neutral
  ELSE [neutral |-> FALSE, diff |-> Abs(amount.v - med.v), med |-> med.v]

\* Timestamps are counted in hours.
HoursPerDay == 24

\* Date.parse: NaN (no number) for a string that is no date
DateParse(iso) == IF iso.kind = "iso" THEN Num(iso.ts) ELSE NoNum

recencyScoreNoTiers(iso, nowH) ==
  IF iso.kind = "absent" \/ ~DateParse(iso).ok THEN 5 ELSE 10

\* recencyScore, times ten: tiers by age in days
recencyScore(iso, nowH) ==
  IF iso.kind = "absent" THEN 5
  ELSE LET ts == DateParse(iso)
       IN  IF ~ts.ok THEN 5
           ELSE LET age == nowH - ts.v
                IN  IF age <= 1 * HoursPerDay THEN 10
                    ELSE IF age <= 7 * HoursPerDay THEN 8
                    ELSE IF age <= 30 * HoursPerDay THEN 6
                    ELSE IF age <= 90 * HoursPerDay THEN 4
                    ELSE 2

\* SOURCE_WEIGHTS[source] ?? 0.6, times ten
SourceWeight(source) ==
  CASE source = <<"ebay">> -> 10
    [] source = <<"gumtree">> -> 9
    [] source = <<"cashConverters">> -> 8
    [] source = <<"facebook">> -> 7
    [] source = <<"vinted">> -> 7
    [] source = <<"depop">> -> 7
    [] source = <<"discogs">> -> 8
    [] source = <<"googleShopping">> -> 6
    [] source = <<"googleResults">> -> 6
    [] OTHER -> 6

(***************************************************************************)
(* Deduplication.                                                          *)
(***************************************************************************)
\* String(n) for a parsed amount (a lexeme of the identity key)
NumLexeme(n) == IF n.ok THEN ToString(n.v) ELSE "na"

uniqKeyNoPrice(title, price, link) ==
  normalizeText(title) \o <<"::">> \o <<"na">> \o <<"::">> \o extractDomain(link)

\* uniqKey: `${t}::${priceNum ?? 'na'}::${dom}`
uniqKey(title, price, link) ==
  normalizeText(title) \o <<"::">> \o <<NumLexeme(parsePriceNumber(price))>>
    \o <<"::">> \o extractDomain(link)

\* .filter(Boolean) on the flattened results: drops null entries
DropNullEntries(rs) ==
  LET keep == [i \in DOMAIN rs |-> ~IsNullEntry(rs[i])]
      idx == SelectIdx(rs, keep, 1)
  IN  [k \in DOMAIN idx |-> rs[idx[k]]]

\* { ...r, priceAmount }
WithPriceAmount(r, amount) ==
  [title |-> r.title, price |-> r.price, link |-> r.link, image |-> r.image,
   source |-> r.source, description |-> r.description, postedAt |-> r.postedAt,
   priceAmount |-> amount]

\* r?.title ?? ''
OrEmptyString(v) == IF v = NULL THEN <<>> ELSE v

RECURSIVE DedupeLoopKeepAll(_, _, _)
DedupeLoopKeepAll(rs, seen, unique) ==
  IF rs = <<>> THEN unique
  ELSE LET r == Head(rs)
       IN  IF ~Truthy(r.title) \/ ~Truthy(r.link)
           THEN DedupeLoopKeepAll(Tail(rs), seen, unique)
           ELSE DedupeLoopKeepAll(Tail(rs), seen,
                  Append(unique, WithPriceAmount(r, parsePriceNumber(r.price))))

RECURSIVE DedupeLoopKeyFirst(_, _, _)
DedupeLoopKeyFirst(rs, seen, unique) ==
  IF rs = <<>> THEN unique
  ELSE LET r == Head(rs)
           key == uniqKey(OrEmptyString(r.title), r.price, OrEmptyString(r.link))
       IN  IF key \in seen
           THEN DedupeLoopKeyFirst(Tail(rs), seen, unique)
           ELSE IF ~Truthy(r.title) \/ ~Truthy(r.link)
           THEN DedupeLoopKeyFirst(Tail(rs), seen \cup {key}, unique)
           ELSE DedupeLoopKeyFirst(Tail(rs), seen \cup {key},
                  Append(unique, WithPriceAmount(r, parsePriceNumber(r.price))))

RECURSIVE DedupeLoop(_, _, _)
\* the loop of step 4: seen is the Set of keys, unique the array built so far
DedupeLoop(rs, seen, unique) ==
  IF rs = <<>> THEN unique
  ELSE LET r == Head(rs)
           key == uniqKey(r.title, r.price, r.link)
       IN  IF ~Truthy(r.title) \/ ~Truthy(r.link)
           THEN DedupeLoop(Tail(rs), seen, unique)
           ELSE IF key \in seen
           THEN DedupeLoop(Tail(rs), seen, unique)
           ELSE DedupeLoop(Tail(rs), seen \cup {key},
                  Append(unique, WithPriceAmount(r, parsePriceNumber(r.price))))

Dedupe(allResults) == DedupeLoop(allResults, {}, <<>>)

(***************************************************************************)
(* Scoring.  The term-match accumulator is counted in hundredths; the      *)
(* recency and source coefficients in tenths.                              *)
(***************************************************************************)
RECURSIVE SumSeq(_)
SumSeq(ns) == IF ns = <<>> THEN 0 ELSE Head(ns) + SumSeq(Tail(ns))

MapNormalize(ss) == [i \in DOMAIN ss |-> normalizeText(ss[i])]

\* the array, or [] for a null/undefined one
OrEmpty(ss) == IF ss = NULL THEN <<>> ELSE ss

TitleShort == 20

matchScoreNoBonus(result, searchTerm, enhancedQuery) ==
  LET title == normalizeText(result.title)
      description == normalizeText(result.description)
      queryTerms == FilterBoolean(SplitSpace(normalizeText(searchTerm), <<>>))
  IN  SumSeq([i \in DOMAIN queryTerms |->
              (IF Includes(title, queryTerms[i]) THEN 30 ELSE 0)
            + (IF Includes(description, queryTerms[i]) THEN 10 ELSE 0)])

\* matchScore of one listing, before clamping
matchScore(result, searchTerm, enhancedQuery) ==
  LET title == normalizeText(result.title)
      description == normalizeText(result.description)
      queryTerms == FilterBoolean(SplitSpace(normalizeText(searchTerm), <<>>))
      enhancedTerms == FilterBoolean(MapNormalize(OrEmpty(enhancedQuery.search_terms)))
      categories == FilterBoolean(MapNormalize(OrEmpty(enhancedQuery.categories)))
  IN    SumSeq([i \in DOMAIN queryTerms |->
                (IF Includes(title, queryTerms[i]) THEN 30 ELSE 0)
              + (IF Includes(description, queryTerms[i]) THEN 10 ELSE 0)])
      + SumSeq([i \in DOMAIN enhancedTerms |->
                (IF Includes(title, enhancedTerms[i]) THEN 20 ELSE 0)
              + (IF Includes(description, enhancedTerms[i]) THEN 5 ELSE 0)])
      + SumSeq([i \in DOMAIN categories |->
                IF Includes(title, categories[i]) \/ Includes(description, categories[i])
                THEN 15 ELSE 0])
      + (IF Includes(title, normalizeText(searchTerm)) THEN 25 ELSE 0)
      - (IF Len(OrEmpty(result.title)) < TitleShort THEN 5 ELSE 0)
      + (IF Truthy(result.image) THEN 3 ELSE 0)

RoundedScoreNoClamp(match, pc, rec, w) ==
  LET h == match + 2 * rec + w
  IN  IF pc.neutral THEN (h + 16) \div 2
      ELSE IF pc.med > 0
           THEN ((h + 1) * pc.med + 30 * (pc.med - Min(pc.med, pc.diff))) \div (2 * pc.med)
           ELSE ((h + 1) * (0 - pc.med) + 30 * ((0 - pc.med) + pc.diff)) \div (2 * (0 - pc.med))

\* Math.round(100 * clamp01(0.50 * clamp01(match) + 0.15 * pc + 0.10 * rec
\* + 0.05 * w)): with m the clamped accumulator (hundredths), rec and w in
\* tenths, 100 * score = (m + 2 rec + w) / 2 + 15 pc, and Math.round(x) is
\* floor(x + 1/2).  Amounts being whole hundredths, the 1e-6 in the
\* denominator of pc never moves 100 * score across a multiple of 1/2, so
\* the rounded value is the one computed with diff / med.
RoundedScore(match, pc, rec, w) ==
  LET h == Min(100, Max(0, match)) + 2 * rec + w
      x == IF pc.neutral THEN (h + 16) \div 2
           ELSE IF pc.med > 0
           THEN ((h + 1) * pc.med + 30 * (pc.med - Min(pc.med, pc.diff)))
                  \div (2 * pc.med)
           ELSE ((h + 1) * (0 - pc.med) + 30 * ((0 - pc.med) + pc.diff))
                  \div (2 * (0 - pc.med))
  IN  Min(100, Max(0, x))

\* { ...result, score }
WithScore(r, sc) ==
  [title |-> r.title, price |-> r.price, link |-> r.link, image |-> r.image,
   source |-> r.source, description |-> r.description, postedAt |-> r.postedAt,
   priceAmount |-> r.priceAmount, score |-> sc]

\* the amounts the median is taken of
PriceNums(unique) ==
  LET keep == [i \in DOMAIN unique |-> unique[i].priceAmount.ok]
      idx == SelectIdx(unique, keep, 1)
  IN  [k \in DOMAIN idx |-> unique[idx[k]].priceAmount.v]

ScoreOne(result, med, searchTerm, enhancedQuery, nowH) ==
  LET source == IF Truthy(result.source) THEN result.source
                ELSE extractDomain(result.link)
  IN  RoundedScore(matchScore(result, searchTerm, enhancedQuery),
                   priceClosenessScore(result.priceAmount, med),
                   recencyScore(result.postedAt, nowH),
                   SourceWeight(source))

\* steps 5 and 6: the median, then unique.map(result => ({...result, score}))
ScoreAll(unique, searchTerm, enhancedQuery, nowH) ==
  LET med == median(PriceNums(unique))
  IN  [i \in DOMAIN unique |->
        WithScore(unique[i], ScoreOne(unique[i], med, searchTerm, enhancedQuery, nowH))]

(***************************************************************************)
(* Sort and limit.                                                         *)
(***************************************************************************)
MaxResults == 40

RECURSIVE InsertDescUnstable(_, _)
InsertDescUnstable(x, sorted) ==
  IF sorted = <<>> THEN <<x>>
  ELSE IF x.score >= Head(sorted).score THEN <<x>> \o sorted
       ELSE <<Head(sorted)>> \o InsertDescUnstable(x, Tail(sorted))

RECURSIVE InsertDesc(_, _)
\* x goes after every element that does not score lower: equal scores keep
\* their order (Array.prototype.sort is stable)
InsertDesc(x, sorted) ==
  IF sorted = <<>> THEN <<x>>
  ELSE IF x.score > Head(sorted).score THEN <<x>> \o sorted
       ELSE <<Head(sorted)>> \o InsertDesc(x, Tail(sorted))

RECURSIVE SortDesc(_)
\* .sort((a, b) => b.score - a.score)
SortDesc(rs) ==
  IF rs = <<>> THEN <<>>
  ELSE LET n == Len(rs)
       IN  InsertDesc(rs[n], SortDesc(SubSeq(rs, 1, n - 1)))

FilterTitled(rs) ==
  LET keep == [i \in DOMAIN rs |-> Truthy(rs[i].title)]
      idx == SelectIdx(rs, keep, 1)
  IN  [k \in DOMAIN idx |-> rs[idx[k]]]

SortLimitNoSort(scored) == SubSeq(FilterTitled(scored), 1, Min(MaxResults, Len(FilterTitled(scored))))

\* step 7: scored.filter(r => r && r.title).sort(...).slice(0, 40)
SortLimit(scored) ==
  LET sorted == SortDesc(FilterTitled(scored))
  IN  SubSeq(sorted, 1, Min(MaxResults, Len(sorted)))

(***************************************************************************)
(* Currency conversion.  Rates are counted in hundredths.                  *)
(***************************************************************************)
GBP_TO_USD == 127
GBP_TO_EUR == 117
USD_TO_GBP == 79
USD_TO_EUR == 92
EUR_TO_GBP == 85
EUR_TO_USD == 109

\* rates[`${from}_TO_${to}`], 0 for a pair the table does not have
Rate(from, to) ==
  CASE from = "GBP" /\ to = "USD" -> GBP_TO_USD
    [] from = "GBP" /\ to = "EUR" -> GBP_TO_EUR
    [] from = "USD" /\ to = "GBP" -> USD_TO_GBP
    [] from = "USD" /\ to = "EUR" -> USD_TO_EUR
    [] from = "EUR" /\ to = "GBP" -> EUR_TO_GBP
    [] from = "EUR" /\ to = "USD" -> EUR_TO_USD
    [] OTHER -> 0

DigitChar(d) ==
  CASE d = 0 -> "0" [] d = 1 -> "1" [] d = 2 -> "2" [] d = 3 -> "3"
    [] d = 4 -> "4" [] d = 5 -> "5" [] d = 6 -> "6" [] d = 7 -> "7"
    [] d = 8 -> "8" [] d = 9 -> "9"

RECURSIVE NatToString(_)
NatToString(n) ==
  IF n < 10 THEN <<DigitChar(n)>>
  ELSE Append(NatToString(n \div 10), DigitChar(n % 10))

\* `${n}` for an integer n
IntToString(n) == IF n < 0 THEN <<"-">> \o NatToString(0 - n) ELSE NatToString(n)

CurrencySymbol(targetCurrency) ==
  IF targetCurrency = "USD" THEN DOLLAR
  ELSE IF targetCurrency = "EUR" THEN EURO ELSE POUND

\* the currency the price string is taken to be in
DetectCurrency(price) ==
  IF Includes(price, <<DOLLAR>>) THEN "USD"
  ELSE IF Includes(price, <<EURO>>) THEN "EUR" ELSE "GBP"

\* Math.round(numericPrice * rate): amount and rate in hundredths; a null
\* numericPrice passes !isNaN and multiplies as 0
RoundConverted(numericPrice, rate) ==
  ((IF numericPrice.ok THEN numericPrice.v ELSE 0) * rate + 5000) \div 10000

WithPriceRescored(r, p) == [r EXCEPT !.price = p, !.score = 0]

\* { ...result, price }
WithPrice(r, p) == [r EXCEPT !.price = p]

ConvertOneTruncating(result, targetCurrency) ==
  IF ~Truthy(result.price) THEN result
  ELSE LET currentCurrency == DetectCurrency(result.price)
           numericPrice == parsePriceNumber(result.price)
           rate == Rate(currentCurrency, targetCurrency)
       IN  IF currentCurrency # targetCurrency /\ rate # 0
           THEN WithPrice(result, <<CurrencySymbol(targetCurrency)>>
                  \o IntToString(((IF numericPrice.ok THEN numericPrice.v ELSE 0) * rate)
                                   \div 10000))
           ELSE result

\* the callback of results.map in convertCurrency
ConvertOne(result, targetCurrency) ==
  IF ~Truthy(result.price) THEN result
  ELSE LET currentCurrency == DetectCurrency(result.price)
           numericPrice == parsePriceNumber(result.price)
           rate == Rate(currentCurrency, targetCurrency)
       IN  IF currentCurrency # targetCurrency /\ rate # 0
           THEN WithPrice(result, <<CurrencySymbol(targetCurrency)>>
                  \o IntToString(RoundConverted(numericPrice, rate)))
           ELSE result

\* convertCurrency(results, targetCurrency)
convertCurrency(results, targetCurrency) ==
  IF targetCurrency = "GBP" THEN results
  ELSE [i \in DOMAIN results |-> ConvertOne(results[i], targetCurrency)]

(***************************************************************************)
(* Query enhancement (services/openaiService.js).                          *)
(***************************************************************************)
W_iphone == <<"i", "p", "h", "o", "n", "e">>
W_apple == <<"a", "p", "p", "l", "e">>
W_guitar == <<"g", "u", "i", "t", "a", "r">>
W_bass == <<"b", "a", "s", "s">>
W_amp == <<"a", "m", "p">>
W_pedal == <<"p", "e", "d", "a", "l">>
W_synth == <<"s", "y", "n", "t", "h">>
W_car == <<"c", "a", "r">>
W_vehicle == <<"v", "e", "h", "i", "c", "l", "e">>
W_macbook == <<"m", "a", "c", "b", "o", "o", "k">>
W_rolex == <<"r", "o", "l", "e", "x">>
W_gpu == <<"g", "p", "u">>
W_ps5 == <<"p", "s", "5">>
W_designer == <<"d", "e", "s", "i", "g", "n", "e", "r">>
W_luxury == <<"l", "u", "x", "u", "r", "y">>
W_vintage == <<"v", "i", "n", "t", "a", "g", "e">>
W_collectible == <<"c", "o", "l", "l", "e", "c", "t", "i", "b", "l", "e">>
W_pokemon == <<"p", "o", "k", "e", "m", "o", "n">>
W_tcg == <<"t", "c", "g">>

S_used == <<"u", "s", "e", "d", " ">>
S_second_hand == <<" ", "s", "e", "c", "o", "n", "d", " ", "h", "a", "n", "d">>
S_pre_owned == <<" ", "p", "r", "e", "-", "o", "w", "n", "e", "d">>
S_secondhand == <<" ", "s", "e", "c", "o", "n", "d", "h", "a", "n", "d">>
S_unlocked == <<" ", "u", "n", "l", "o", "c", "k", "e", "d">>
S_refurbished == <<" ", "r", "e", "f", "u", "r", "b", "i", "s", "h", "e", "d">>
S_electric == <<" ", "e", "l", "e", "c", "t", "r", "i", "c">>
S_low_mileage == <<" ", "l", "o", "w", " ", "m", "i", "l", "e", "a", "g", "e">>
S_service_history == <<" ", "s", "e", "r", "v", "i", "c", "e", " ", "h", "i", "s", "t", "o", "r", "y">>
S_general == <<"g", "e", "n", "e", "r", "a", "l">>
S_reddit == <<"r", "e", "d", "d", "i", "t">>

\* /(a|b|...)/i.test(lower)
TestAny(lower, patterns) == \E w \in patterns : Includes(lower, w)

RECURSIVE UniqueLoop(_, _)
\* [...new Set(xs)]: first occurrences, in order
UniqueLoop(xs, acc) ==
  IF xs = <<>> THEN acc
  ELSE IF Head(xs) \in Range(acc) THEN UniqueLoop(Tail(xs), acc)
       ELSE UniqueLoop(Tail(xs), Append(acc, Head(xs)))

Unique(xs) == UniqueLoop(xs, <<>>)

\* xs.slice(0, n)
Slice(xs, n) == SubSeq(xs, 1, Min(n, Len(xs)))

FallbackCap == 6
EnhanceCap == 8

Flags(hv, scam, forumsLikely, reseller) ==
  [high_value_item |-> hv, common_scam_target |-> scam,
   likely_on_forums |-> forumsLikely, reseller_friendly |-> reseller]

getFallbackEnhancementBare(searchTerm) ==
  LET t == trim(OrEmpty(searchTerm))
  IN  [original |-> t, search_terms |-> <<>>,
       categories |-> <<S_general>>, forums |-> <<S_reddit>>,
       flags |-> Flags(FALSE, FALSE, FALSE, TRUE)]

\* getFallbackEnhancement(searchTerm)
getFallbackEnhancement(searchTerm) ==
  LET t == trim(OrEmpty(searchTerm))
      lower == toLowerCase(t)
      base == <<t, S_used \o t, t \o S_second_hand, t \o S_pre_owned, t \o S_secondhand>>
              \o (IF TestAny(lower, {W_iphone, W_apple})
                  THEN <<t \o S_unlocked, t \o S_refurbished>> ELSE <<>>)
              \o (IF TestAny(lower, {W_guitar, W_bass, W_amp, W_pedal, W_synth})
                  THEN <<t \o (<<" ">> \o W_vintage), t \o S_electric>> ELSE <<>>)
              \o (IF TestAny(lower, {W_car, W_vehicle})
                  THEN <<t \o S_low_mileage, t \o S_service_history>> ELSE <<>>)
  IN  [original |-> t,
       search_terms |-> Slice(FilterBoolean(Unique(base)), FallbackCap),
       categories |-> <<S_general>>,
       forums |-> <<S_reddit>>,
       flags |-> Flags(TestAny(lower, {W_iphone, W_macbook, W_rolex, W_gpu, W_ps5}),
                       TestAny(lower, {W_iphone, W_designer, W_luxury, W_gpu}),
                       TestAny(lower, {W_guitar, W_vintage, W_collectible, W_pokemon, W_tcg}),
                       TRUE)]

\* a call that remembers the terms it was asked before
FallbackCallRemembering(searchTerm, asked) ==
  IF searchTerm \in Range(asked)
  THEN getFallbackEnhancementBare(searchTerm)
  ELSE getFallbackEnhancement(searchTerm)

\* openaiService.getFallbackEnhancement(searchTerm) called in a process that
\* has answered the calls asked before: the method reads its argument only
FallbackCall(searchTerm, asked) == getFallbackEnhancement(searchTerm)

(***************************************************************************)
(* What the completion call can come to.  kind is "error" (the request     *)
(* throws: network error, timeout), "empty" (no content), "unparseable"    *)
(* (tryParseJsonLoose gives null) or "parsed"; a parsed object's absent    *)
(* fields are NULL, and search_terms may be something that is no array.    *)
(***************************************************************************)
NotAnArray == <<"<not-an-array>">>

Completion(k, orig, terms, cats, forums, flags) ==
  [kind |-> k, original |-> orig, search_terms |-> terms, categories |-> cats,
   forums |-> forums, flags |-> flags]

IsArray(v) == v # NULL /\ v # NotAnArray

\* a parsed object without a flags field
AbsentFlags == [absent |-> TRUE]

NoFlags == Flags(FALSE, FALSE, FALSE, FALSE)

\* !!parsed?.flags?.x for the four flags: every flag of an absent flags
\* object comes out false
BangFlags(flags) == IF flags = AbsentFlags THEN NoFlags ELSE flags

enhanceFromParsedNoMerge(parsed, searchTerm) ==
  [original |-> IF Truthy(parsed.original) THEN parsed.original ELSE OrEmpty(searchTerm),
   search_terms |-> IF IsArray(parsed.search_terms)
                    THEN Slice(FilterBoolean(parsed.search_terms), EnhanceCap) ELSE <<>>,
   categories |-> IF IsArray(parsed.categories) THEN FilterBoolean(parsed.categories) ELSE <<>>,
   forums |-> IF IsArray(parsed.forums) THEN FilterBoolean(parsed.forums) ELSE <<>>,
   flags |-> BangFlags(parsed.flags)]

\* the normalize/validate block and the fallback merge of enhanceSearchQuery
enhanceFromParsed(parsed, searchTerm) ==
  LET out == enhanceFromParsedNoMerge(parsed, searchTerm)
      fb == getFallbackEnhancement(searchTerm)
  IN  IF out.search_terms = <<>>
      THEN [original |-> out.original,
            search_terms |-> Slice(Unique(fb.search_terms \o out.search_terms), EnhanceCap),
            categories |-> IF out.categories = <<>> THEN fb.categories ELSE out.categories,
            forums |-> IF out.forums = <<>> THEN fb.forums ELSE out.forums,
            flags |-> out.flags]
      ELSE out

enhanceSearchQueryNoExpansion(hasKeyArg, completion, searchTerm) ==
  IF ~hasKeyArg THEN [thrown |-> FALSE, value |-> getFallbackEnhancement(searchTerm)]
  ELSE IF completion.kind = "parsed"
       THEN [thrown |-> FALSE, value |-> enhanceFromParsed(completion, searchTerm)]
       ELSE [thrown |-> FALSE, value |-> getFallbackEnhancementBare(searchTerm)]

\* enhanceSearchQuery(searchTerm): what the returned promise settles with.
\* thrown is FALSE on every path: the catch block returns the fallback.
enhanceSearchQuery(hasKeyArg, completion, searchTerm) ==
  IF ~hasKeyArg THEN [thrown |-> FALSE, value |-> getFallbackEnhancement(searchTerm)]
  ELSE IF completion.kind = "parsed"
       THEN [thrown |-> FALSE, value |-> enhanceFromParsed(completion, searchTerm)]
       ELSE [thrown |-> FALSE, value |-> getFallbackEnhancement(searchTerm)]

(***************************************************************************)
(* The source registry (getActiveSources).                                 *)
(***************************************************************************)
\* the keys of `maybe`, in its order
SourceKeys ==
  <<"ebay", "gumtree", "cashConverters", "facebook", "vinted", "depop",
    "discogs", "googleShopping", "googleResults">>

\* key.toLowerCase() for a source key or an allow-list entry
LowerWord(w) ==
  CASE w = "cashConverters" -> "cashconverters"
    [] w = "googleShopping" -> "googleshopping"
    [] w = "googleResults" -> "googleresults"
    [] w = "EBAY" -> "ebay"
    [] w = "Vinted" -> "vinted"
    [] OTHER -> w

\* options.sources left out of the request
Absent == <<"<absent>">>

getActiveSourcesIgnoreAllow(reg, sources) ==
  LET keep == [i \in DOMAIN SourceKeys |-> SourceKeys[i] \in reg]
      idx == SelectIdx(SourceKeys, keep, 1)
  IN  [k \in DOMAIN idx |-> SourceKeys[idx[k]]]

\* getActiveSources(options): reg is the set of keys whose method exists on
\* scrapingService, sources is options.sources
getActiveSources(reg, sources) ==
  LET keepAv == [i \in DOMAIN SourceKeys |-> SourceKeys[i] \in reg]
      idxAv == SelectIdx(SourceKeys, keepAv, 1)
      available == [k \in DOMAIN idxAv |-> SourceKeys[idxAv[k]]]
  IN  IF sources = Absent \/ sources = NotAnArray \/ sources = <<>>
      THEN available
      ELSE LET allow == {LowerWord(sources[i]) : i \in DOMAIN sources}
               keep == [i \in DOMAIN available |-> LowerWord(available[i]) \in allow]
               idx == SelectIdx(available, keep, 1)
           IN  [k \in DOMAIN idx |-> available[idx[k]]]

(***************************************************************************)
(* Source functions.                                                       *)
(***************************************************************************)
\* the scrapers scrapingService defines in src/
SrcDefined == {"ebay", "gumtree", "facebook"}

T_ebay_special == <<" ", "-", " ", "e", "B", "a", "y", " ", "S", "p", "e", "c", "i", "a", "l">>
T_excellent == <<" ", "-", " ", "E", "x", "c", "e", "l", "l", "e", "n", "t", " ", "C", "o", "n", "d", "i", "t", "i", "o", "n">>
T_good_deal == <<" ", "-", " ", "G", "o", "o", "d", " ", "D", "e", "a", "l">>
T_facebook_find == <<" ", "-", " ", "F", "a", "c", "e", "b", "o", "o", "k", " ", "F", "i", "n", "d">>
T_cc_mock == <<" ", "-", " ", "C", "a", "s", "h", "C", "o", "n", "v", "e", "r", "t", "e", "r", "s", " ", "M", "o", "c", "k">>
D_mock_for == <<"M", "o", "c", "k", " ", "l", "i", "s", "t", "i", "n", "g", " ", "f", "o", "r", " ">>
D_on_cc == <<" ", "o", "n", " ", "C", "a", "s", "h", "C", "o", "n", "v", "e", "r", "t", "e", "r", "s">>
D_preowned == <<"P", "r", "e", "-", "o", "w", "n", "e", "d", " ">>
D_from_ebay == <<" ", "f", "r", "o", "m", " ", "e", "B", "a", "y">>
D_used == <<"U", "s", "e", "d", " ">>
D_excellent == <<" ", "i", "n", " ", "e", "x", "c", "e", "l", "l", "e", "n", "t", " ", "c", "o", "n", "d", "i", "t", "i", "o", "n">>
D_secondhand == <<"S", "e", "c", "o", "n", "d", "-", "h", "a", "n", "d", " ">>
D_great_price == <<" ", "a", "t", " ", "g", "r", "e", "a", "t", " ", "p", "r", "i", "c", "e">>
D_great == <<"G", "r", "e", "a", "t", " ">>
D_from_fb == <<" ", "f", "r", "o", "m", " ", "F", "a", "c", "e", "b", "o", "o", "k", " ", "M", "a", "r", "k", "e", "t", "p", "l", "a", "c", "e">>
IMG == <<"https://", "images.pexels.com", "/p/1">>

\* getMockEbayResults / getMockGumtreeResults / getMockFacebookResults /
\* getMockCashConvertersResults
MockResults(key, searchTerm) ==
  CASE key = "ebay" ->
         <<Listing(searchTerm \o T_ebay_special, <<POUND, "1", "8", "0">>,
                   <<"https://", "www.", "ebay.com", "/itm/1">>, IMG, <<"ebay">>,
                   D_preowned \o searchTerm \o D_from_ebay, NoDate)>>
    [] key = "gumtree" ->
         <<Listing(searchTerm \o T_excellent, <<POUND, "1", "5", "0">>,
                   <<"https://", "www.", "gumtree.com", "/p/1">>, IMG, <<"gumtree">>,
                   D_used \o searchTerm \o D_excellent, NoDate),
           Listing(searchTerm \o T_good_deal, <<POUND, "1", "2", "0">>,
                   <<"https://", "www.", "gumtree.com", "/p/2">>, IMG, <<"gumtree">>,
                   D_secondhand \o searchTerm \o D_great_price, NoDate)>>
    [] key = "facebook" ->
         <<Listing(searchTerm \o T_facebook_find, <<POUND, "1", "0", "0">>,
                   <<"https://", "www.", "facebook.com", "/item/1">>, IMG, <<"facebook">>,
                   D_great \o searchTerm \o D_from_fb, NoDate)>>
    [] key = "cashConverters" ->
         <<Listing(searchTerm \o T_cc_mock, <<POUND, "9", "9">>,
                   <<"https://", "www.", "cashconverters.co.uk", "/mock-listing-1">>, IMG,
                   <<"cashconverters">>, D_mock_for \o searchTerm \o D_on_cc, NoDate)>>

Outcome(k, v) == [kind |-> k, value |-> v]

\* searchEbay / searchGumtree / searchFacebookMarketplace /
\* searchCashConverters with no ScrapingBee key configured.  The body reads this.scrapingBeeApiKey inside its try
\* block: with `this` undefined that read throws a TypeError, which the
\* method's own catch turns into the return value [].
ScraperMethod(key, thisBound, searchTerm) ==
  IF thisBound THEN Outcome("array", MockResults(key, searchTerm))
  ELSE Outcome("array", <<>>)

(***************************************************************************)
(* Sources whose functions are not part of src/ (searchVinted,             *)
(* searchGoogleShopping, ...): a source capability fetch(term, location,   *)
(* maxPages) that returns a sequence of raw listings or fails.             *)
(***************************************************************************)
\* a title that is no string (a number)
NumberTitle == <<"<number>">>

T_ob1_pedal == <<"O", "B", "1", " ", "P", "e", "d", "a", "l">>
T_ob1_pedal_ws == <<"o", "b", "1", " ", " ", "p", "e", "d", "a", "l", " ">>
T_amp == <<" ", "a", "m", "p">>
P_280 == <<POUND, "2", "8", "0">>
P_280_00 == <<POUND, "2", "8", "0", ".", "0", "0">>
P_usd_99 == <<DOLLAR, "9", "9">>
L_vinted_1 == <<"https://", "www.", "vinted.co.uk", "/p/1">>
L_vinted_2 == <<"https://", "vinted.co.uk", "/p/2">>
L_shop_1 == <<"https://", "shop.example", "/item/1">>

\* what the marketplace behind a source lists for a term
CapabilityListings(key, term) ==
  IF key = "vinted"
  THEN <<Listing(T_ob1_pedal, P_280, L_vinted_1, IMG, <<"vinted">>, T_ob1_pedal, IsoDate(0)),
         NullEntry,
         Listing(term, P_280, NULL, NULL, <<"vinted">>, NULL, NoDate)>>
  ELSE <<Listing(T_ob1_pedal_ws, P_280_00, L_vinted_2, NULL, NULL, NULL, NoDate),
         Listing(term \o T_amp, P_usd_99, L_shop_1, NULL, <<key>>, term, BadDate)>>

\* how the call of a source goes: vinted answers every term; googleShopping
\* fails on some term variants, each in another way; depop is down; discogs
\* answers with a listing whose title is no string
CapabilityMode(key, term) ==
  CASE key = "vinted" -> "listings"
    [] key = "googleShopping" ->
         IF StartsWith(term, S_used) THEN "throws"
         ELSE IF Includes(term, S_second_hand) THEN "rejects"
         ELSE IF Includes(term, S_pre_owned) THEN "nonarray"
         ELSE "listings"
    [] key = "depop" -> "throws"
    [] key = "discogs" -> "malformed"
    [] OTHER -> "listings"

Capability(key, term) ==
  LET mode == CapabilityMode(key, term)
  IN  CASE mode = "listings" -> Outcome("array", CapabilityListings(key, term))
        [] mode = "throws" -> Outcome("throw", <<>>)
        [] mode = "rejects" -> Outcome("reject", <<>>)
        [] mode = "nonarray" -> Outcome("nonarray", <<>>)
        [] mode = "malformed" ->
             Outcome("array",
                     <<Listing(NumberTitle, P_280, L_shop_1, NULL, <<key>>, NULL, NoDate)>>)

(***************************************************************************)
(* State.                                                                  *)
(***************************************************************************)
VARIABLES
  hasKey,            \* openaiService.js: hasKey (OPENAI_API_KEY is set)
  registered,        \* the keys whose search function exists on scrapingService
  completion,        \* what the completion call of each request comes to
  now,               \* Date.now(), in hours
  lastEnhancedQuery, \* searchService.lastEnhancedQuery
  totalSearches,     \* userStats.totalSearches
  pc,                \* where each request is
  args,              \* performSearch's arguments, per request
  enhancedQuery,     \* performSearch's local enhancedQuery, per request
  calls,             \* searchPromises, per request
  result,            \* what performSearch settled with, per request
  response,          \* what the handler sent, per request
  rank,              \* steps 4 to 7 of performSearch applied to a drawn input
  conv,              \* convertCurrency applied to a drawn price
  enh,               \* enhanceSearchQuery applied to a drawn completion
  runs               \* scoring applied to one input at two moments; the fan-out
                     \* of one search with the order its promises settle in

\* the state of the running service
service == <<hasKey, registered, completion, now, lastEnhancedQuery, totalSearches,
             pc, args, enhancedQuery, calls, result, response>>

vars == <<hasKey, registered, completion, now, lastEnhancedQuery, totalSearches,
          pc, args, enhancedQuery, calls, result, response, rank, conv, enh, runs>>

Req == {"A", "B"}

\* searchService.lastEnhancedQuery = null, and a local not yet assigned
NoEQ == [original |-> NULL, search_terms |-> <<>>, categories |-> <<>>,
         forums |-> <<>>, flags |-> NoFlags]

NoArgs == [searchTerm |-> NULL, currency |-> "GBP", sources |-> Absent]
NoResponse == [status |-> 0, items |-> <<>>, enhancedQuery |-> NoEQ]

TermCap == 5

allSearchTermsUncapped(searchTerm, eq) ==
  FilterBoolean([i \in 1..(Len(eq.search_terms) + 1) |->
                   trim(IF i = 1 THEN searchTerm ELSE eq.search_terms[i - 1])])

\* [searchTerm, ...expansions].map(s => String(s || '').trim())
\*   .filter(Boolean).slice(0, 5)
allSearchTerms(searchTerm, eq) ==
  Slice(FilterBoolean([i \in 1..(Len(eq.search_terms) + 1) |->
                         trim(IF i = 1 THEN searchTerm ELSE eq.search_terms[i - 1])]),
        TermCap)

\* the invocation a promise of searchPromises stands for, not yet settled
PendingCall(term, key) ==
  [term |-> term, key |-> key, done |-> FALSE, outcome |-> "none",
   status |-> "pending", value |-> <<>>]

\* a promise of searchPromises: fulfilled with a value, or rejected
Settled(st, v) == [status |-> st, value |-> v]

\* the two nested loops of step 3, in push order
FanOut(terms, active) ==
  [i \in 1..(Len(terms) * Len(active)) |->
     PendingCall(terms[((i - 1) \div Len(active)) + 1],
                 active[((i - 1) % Len(active)) + 1])]

\* fn(term, location, options?.maxPages), fn being the function taken from
\* scrapingService without its receiver
Invoke(key, term) ==
  IF key \in SrcDefined THEN ScraperMethod(key, FALSE, term)
  ELSE Capability(key, term)

ContributionUncaught(outcome) ==
  IF outcome.kind = "array" THEN Settled("fulfilled", outcome.value)
  ELSE Settled("rejected", <<>>)

\* .catch(err => []) and .then(items => Array.isArray(items) ? items : [])
\* around the call: what the promise in searchPromises settles with
Contribution(outcome) ==
  IF outcome.kind = "array" THEN Settled("fulfilled", outcome.value)
  ELSE Settled("fulfilled", <<>>)

\* settled.filter(r => r.status === 'fulfilled').flatMap(r => r.value)
\*   .filter(Boolean)
AllResults(cs) ==
  DropNullEntries(Flatten([i \in DOMAIN cs |->
                             IF cs[i].status = "fulfilled" THEN cs[i].value ELSE <<>>]))

\* a listing whose title is no string makes normalizeText throw a TypeError
ThrowsInPipeline(allResults) ==
  \E i \in DOMAIN allResults :
    allResults[i].title = NumberTitle /\ Truthy(allResults[i].link)

\* steps 4 to 8 of performSearch on a non-empty allResults
Rank(allResults, searchTerm, eq, currency, nowH) ==
  convertCurrency(SortLimit(ScoreAll(Dedupe(allResults), searchTerm, eq, nowH)), currency)

(***************************************************************************)
(* Inputs.                                                                 *)
(***************************************************************************)
RAW_ob1 == <<" ", "o", "b", "1">>
RAW_ob1_pedal == <<"O", "B", "1", " ", "P", "e", "d", "a", "l">>
RAW_blank == <<" ", " ">>
X_OB1 == <<"O", "B", "1">>
X_pedal == <<"P", "e", "d", "a", "l">>

Body(t, c, srcs) == [search_term |-> t, currency |-> c, sources |-> srcs]

\* the request bodies POST /search is given by the first client, ...
BodiesA ==
  { Body(RAW_ob1, "GBP", Absent),
    Body(RAW_ob1_pedal, "USD", <<"Vinted">>),
    Body(RAW_ob1, "EUR", <<"googleshopping">>),
    Body(RAW_ob1, "GBP", <<"depop", "EBAY">>),
    Body(RAW_ob1_pedal, "GBP", <<"discogs">>),
    Body(RAW_ob1, "USD", <<"nosuch">>),
    Body(RAW_blank, "GBP", Absent) }

\* ... and by the second
BodiesB ==
  { Body(RAW_ob1_pedal, "GBP", <<"Vinted">>),
    Body(RAW_ob1_pedal, "USD", <<"nosuch">>),
    Body(RAW_ob1, "GBP", <<>>),
    Body(RAW_ob1, "GBP", NotAnArray) }

Bodies(r) == IF r = "A" THEN BodiesA ELSE BodiesB

\* what client.chat.completions.create comes to
Completions ==
  { Completion("error", NULL, NULL, NULL, NULL, NoFlags),
    Completion("empty", NULL, NULL, NULL, NULL, NoFlags),
    Completion("unparseable", NULL, NULL, NULL, NULL, NoFlags),
    Completion("parsed", NULL, <<X_OB1>>, <<X_pedal>>, NULL, Flags(TRUE, FALSE, FALSE, FALSE)),
    Completion("parsed", RAW_ob1, <<>>, <<X_pedal>>, NULL, Flags(TRUE, FALSE, FALSE, FALSE)) }

\* no completion is requested when the key is missing
NoCompletion == Completion("none", NULL, NULL, NULL, NULL, NoFlags)

RegistryConfigs ==
  { {"ebay", "gumtree", "facebook"},
    {"ebay", "gumtree", "facebook", "vinted", "googleShopping", "depop", "discogs"} }

\* the model follows at most MaxInvocations source invocations in all
MaxInvocations == 8

\* the source invocations a request with arguments a will make
Budget(a, c, key, reg) ==
  IF a = NoArgs THEN 0
  ELSE Len(allSearchTerms(a.searchTerm, enhanceSearchQuery(key, c, a.searchTerm).value))
         * Len(getActiveSources(reg, a.sources))

RECURSIVE SumBudget(_, _, _, _, _)
SumBudget(rs, a, c, key, reg) ==
  IF rs = {} THEN 0
  ELSE LET r == CHOOSE x \in rs : TRUE
       IN  Budget(a[r], c[r], key, reg) + SumBudget(rs \ {r}, a, c, key, reg)

(***************************************************************************)
(* Initial state: the process has started, no request has arrived.         *)
(***************************************************************************)
\* steps 4 to 7 not applied, convertCurrency not applied
NoRank == [stage |-> "off", searchTerm |-> NULL, eq |-> NoEQ, nowH |-> 0,
           input |-> <<>>, unique |-> <<>>, scored |-> <<>>, final |-> <<>>]
NoConv == [stage |-> "off", amount |-> 0, listing |-> <<>>, there |-> <<>>, back |-> <<>>]
NoEnh == [stage |-> "off", searchTerm |-> NULL, completion |-> NoCompletion, out |-> NoEQ,
          terms |-> <<>>, asked |-> <<>>, answers |-> <<>>]
NoRuns == [stage |-> "off", searchTerm |-> NULL, eq |-> NoEQ, input |-> <<>>,
           clock |-> 0, first |-> <<>>, second |-> <<>>]

\* no search has been received
Idle ==
  /\ completion = [r \in Req |-> NoCompletion]
  /\ now = 0
  /\ lastEnhancedQuery = NoEQ
  /\ totalSearches = 0
  /\ pc = [r \in Req |-> "idle"]
  /\ args = [r \in Req |-> NoArgs]
  /\ enhancedQuery = [r \in Req |-> NoEQ]
  /\ calls = [r \in Req |-> <<>>]
  /\ result = [r \in Req |-> Settled("pending", <<>>)]
  /\ response = [r \in Req |-> NoResponse]

Init ==
  /\ hasKey \in BOOLEAN
  /\ registered \in RegistryConfigs
  /\ Idle
  /\ rank = NoRank
  /\ conv = NoConv
  /\ enh = NoEnh
  /\ runs = NoRuns

(***************************************************************************)
(* app.post('/search'): validation, then performSearch up to its first     *)
(* await (the call of enhanceSearchQuery).  c is what the completion       *)
(* request made for this search will come to.                              *)
(***************************************************************************)
Receive(r) ==
  /\ pc[r] = "idle"
  /\ \E body \in Bodies(r), c \in (IF hasKey THEN Completions ELSE {NoCompletion}) :
       LET clean == trim(body.search_term)
           a == [searchTerm |-> clean, currency |-> body.currency,
                 sources |-> body.sources]
       IN  IF clean = <<>>
           THEN /\ c = CHOOSE x \in (IF hasKey THEN Completions ELSE {NoCompletion}) : TRUE
                /\ response' = [response EXCEPT ![r] =
                                  [status |-> 400, items |-> <<>>, enhancedQuery |-> NoEQ]]
                /\ pc' = [pc EXCEPT ![r] = "responded"]
                /\ UNCHANGED <<args, completion, totalSearches>>
           ELSE /\ SumBudget(Req \ {r}, args, completion, hasKey, registered)
                     + Budget(a, c, hasKey, registered) <= MaxInvocations
                /\ totalSearches' = totalSearches + 1
                /\ args' = [args EXCEPT ![r] = a]
                /\ completion' = [completion EXCEPT ![r] = c]
                /\ pc' = [pc EXCEPT ![r] = "enhancing"]
                /\ UNCHANGED response
  /\ UNCHANGED <<hasKey, registered, now, lastEnhancedQuery,
                 enhancedQuery, calls, result, rank, conv, enh, runs>>

(***************************************************************************)
(* performSearch resumes after `await enhanceSearchQuery`: steps 1 to 3,   *)
(* up to `await Promise.allSettled(searchPromises)`.                       *)
(***************************************************************************)
EnhanceSettles(r) ==
  /\ pc[r] = "enhancing"
  /\ LET res == enhanceSearchQuery(hasKey, completion[r], args[r].searchTerm)
         eq == IF res.thrown THEN getFallbackEnhancement(args[r].searchTerm)
               ELSE res.value
         terms == allSearchTerms(args[r].searchTerm, eq)
         active == getActiveSources(registered, args[r].sources)
     IN  /\ enhancedQuery' = [enhancedQuery EXCEPT ![r] = eq]
         /\ lastEnhancedQuery' = eq
         /\ IF Len(active) = 0
            THEN /\ result' = [result EXCEPT ![r] = Settled("fulfilled", <<>>)]
                 /\ pc' = [pc EXCEPT ![r] = "settled"]
                 /\ UNCHANGED calls
            ELSE /\ calls' = [calls EXCEPT ![r] = FanOut(terms, active)]
                 /\ pc' = [pc EXCEPT ![r] = "awaiting"]
                 /\ UNCHANGED result
  /\ UNCHANGED <<hasKey, registered, completion, now, totalSearches, args, response,
                 rank, conv, enh, runs>>

(***************************************************************************)
(* One promise of searchPromises settles: the source function has been     *)
(* called and its outcome has gone through the catch/then wrapper.         *)
(***************************************************************************)
SourceSettles(r) ==
  /\ pc[r] = "awaiting"
  /\ \E i \in DOMAIN calls[r] :
       /\ ~calls[r][i].done
       /\ LET c == calls[r][i]
              outcome == Invoke(c.key, c.term)
              s == Contribution(outcome)
          IN  calls' = [calls EXCEPT ![r][i] =
                          [term |-> c.term, key |-> c.key, done |-> TRUE,
                           outcome |-> outcome.kind, status |-> s.status,
                           value |-> s.value]]
  /\ UNCHANGED <<hasKey, registered, completion, now, lastEnhancedQuery, totalSearches,
                 pc, args, enhancedQuery, result, response, rank, conv, enh, runs>>

FinishFailsOnEmpty(cs, a, eq, nowH) ==
  LET allResults == AllResults(cs)
  IN  IF allResults = <<>> THEN Settled("rejected", <<>>)
      ELSE IF ThrowsInPipeline(allResults) THEN Settled("rejected", <<>>)
      ELSE Settled("fulfilled", Rank(allResults, a.searchTerm, eq, a.currency, nowH))

\* what performSearch settles with once every promise has settled
Finish(cs, a, eq, nowH) ==
  LET allResults == AllResults(cs)
  IN  IF allResults = <<>> THEN Settled("fulfilled", <<>>)
      ELSE IF ThrowsInPipeline(allResults) THEN Settled("rejected", <<>>)
      ELSE Settled("fulfilled", Rank(allResults, a.searchTerm, eq, a.currency, nowH))

\* a resumption that does not wait for the promises still pending
AllSettledEarly(r) ==
  /\ pc[r] = "awaiting"
  /\ result' = [result EXCEPT ![r] = Finish(calls[r], args[r], enhancedQuery[r], now)]
  /\ pc' = [pc EXCEPT ![r] = "settled"]
  /\ UNCHANGED <<hasKey, registered, completion, now, lastEnhancedQuery, totalSearches,
                 args, enhancedQuery, calls, response, rank, conv, enh, runs>>

(***************************************************************************)
(* performSearch resumes after `await Promise.allSettled`: steps 4 to 8,   *)
(* or the catch block that rethrows 'Search failed: ...'.                  *)
(***************************************************************************)
AllSettled(r) ==
  /\ pc[r] = "awaiting"
  /\ \A i \in DOMAIN calls[r] : calls[r][i].done
  /\ result' = [result EXCEPT ![r] = Finish(calls[r], args[r], enhancedQuery[r], now)]
  /\ pc' = [pc EXCEPT ![r] = "settled"]
  /\ UNCHANGED <<hasKey, registered, completion, now, lastEnhancedQuery, totalSearches,
                 args, enhancedQuery, calls, response, rank, conv, enh, runs>>

(***************************************************************************)
(* The handler resumes after `await performSearch`: it reads               *)
(* getLastEnhancedQuery() and answers, or answers 500 from its catch.      *)
(***************************************************************************)
HandlerResumes(r) ==
  /\ pc[r] = "settled"
  /\ response' = [response EXCEPT ![r] =
       IF result[r].status = "fulfilled"
       THEN [status |-> 200, items |-> result[r].value,
             enhancedQuery |-> lastEnhancedQuery]
       ELSE [status |-> 500, items |-> <<>>, enhancedQuery |-> NoEQ]]
  /\ pc' = [pc EXCEPT ![r] = "responded"]
  /\ UNCHANGED <<hasKey, registered, completion, now, lastEnhancedQuery, totalSearches,
                 args, enhancedQuery, calls, result, rank, conv, enh, runs>>

Next ==
  \/ \E r \in Req : Receive(r)
  \/ \E r \in Req : EnhanceSettles(r)
  \/ \E r \in Req : SourceSettles(r)
  \/ \E r \in Req : AllSettled(r)
  \/ \E r \in Req : HandlerResumes(r)

Spec == Init /\ [][Next]_vars

\* every promise of searchPromises of request r has settled
EverySourceSettled(r) == \A i \in DOMAIN calls[r] : calls[r][i].done

\* the step of EnhanceSettles(r), as the position of r shows it
EnhancementSettled(r) ==
  /\ pc[r] = "enhancing"
  /\ pc' \in {[pc EXCEPT ![r] = "awaiting"], [pc EXCEPT ![r] = "settled"]}

\* the step of AllSettled(r), as the position of r shows it
AwaitResumed(r) ==
  /\ pc[r] = "awaiting"
  /\ EverySourceSettled(r)
  /\ pc' = [pc EXCEPT ![r] = "settled"]

\* The completion request and every source invocation settle in the end (the
\* hypothesis of the liveness claim), and the event loop runs the
\* continuation of an await whose promise has settled.
Fairness ==
  \A r \in Req :
    /\ WF_pc(EnhancementSettled(r))
    /\ WF_vars(SourceSettles(r))
    /\ WF_pc(AwaitResumed(r))

SpecLive == Init /\ [][Next]_vars /\ Fairness

(***************************************************************************)
(* Steps 4 to 7 of performSearch (deduplicate, score, sort and limit)      *)
(* applied to an allResults drawn from a pool of raw listings.             *)
(***************************************************************************)
T_pedal_ob1 == <<"P", "e", "d", "a", "l", " ", "O", "B", "1">>
T_long == <<"O", "B", "1", " ", "P", "e", "d", "a", "l", " ", "u", "s", "e", "d", " ",
            "b", "o", "x", "e", "d", " ", "s", "e", "t">>
T_amp_only == <<"a", "m", "p">>
P_POA == <<"P", "O", "A">>
P_minus_5 == <<"-", "5">>
P_minus_9 == <<POUND, "-", "9", ".", "5", "0">>
L_ebay_1 == <<"https://", "www.", "ebay.com", "/itm/1">>

\* Date.now() while the drawn input is ranked, in hours
RankNow == 200

\* the raw listings the drawn inputs are made of
Pool ==
  { Listing(T_ob1_pedal, P_280, L_vinted_1, IMG, <<"vinted">>, T_ob1_pedal, IsoDate(RankNow)),
    Listing(T_ob1_pedal_ws, P_280_00, L_vinted_2, NULL, NULL, NULL, NoDate),
    Listing(T_pedal_ob1, P_280, L_vinted_1, IMG, <<"vinted">>, T_ob1_pedal, IsoDate(RankNow)),
    Listing(T_ob1_pedal, P_POA, L_ebay_1, NULL, <<"ebay">>, NULL, BadDate),
    Listing(T_pedal_ob1, P_POA, L_ebay_1, NULL, <<"ebay">>, NULL, BadDate),
    Listing(T_long, P_minus_5, L_shop_1, NULL, NULL, NULL, IsoDate(0)),
    Listing(T_amp_only, P_minus_9, L_shop_1, IMG, <<"discogs">>, T_amp_only, NoDate),
    Listing(NULL, P_280, L_vinted_1, NULL, <<"vinted">>, T_ob1_pedal, NoDate) }

\* the drawn inputs hold at most MaxListings listings of the pool, ...
MaxListings == 3

\* ... or more listings than the result may hold, all of them distinct
BatchSize == MaxResults + 1

Batch ==
  [n \in 1..BatchSize |->
     Listing(T_ob1_pedal, <<POUND>> \o NatToString(100 + n), L_ebay_1, NULL,
             <<"ebay">>, NULL, NoDate)]

\* three listings priced 100, 150 and 5000 pounds, in any order, for the same
\* query; they differ in nothing but price and title
P_100 == <<POUND, "1", "0", "0">>
P_150 == <<POUND, "1", "5", "0">>
P_5000 == <<POUND, "5", "0", "0", "0">>
P_0 == <<POUND, "0">>

TriplePrices == {P_100, P_150, P_5000}

TriplePool ==
  { Listing(t, p, L_ebay_1, NULL, <<"ebay">>, NULL, NoDate) :
      t \in {T_ob1_pedal, T_amp_only}, p \in TriplePrices }

PriceTriples ==
  { in \in [1..Cardinality(TriplePrices) -> TriplePool] :
      {in[i].price : i \in DOMAIN in} = TriplePrices }

\* listings without a title or without a link, and complete listings they
\* could be taken for: a blank title normalises to the empty title
T_space == <<" ">>

EdgePool ==
  { Listing(NULL, P_280, L_vinted_1, NULL, <<"vinted">>, NULL, NoDate),
    Listing(<<>>, P_5000, L_vinted_1, NULL, <<"vinted">>, NULL, NoDate),
    Listing(T_space, P_280, L_vinted_2, NULL, <<"vinted">>, NULL, NoDate),
    Listing(T_ob1_pedal, P_5000, NULL, NULL, <<"vinted">>, NULL, NoDate),
    Listing(T_ob1_pedal, P_100, L_vinted_1, NULL, <<"vinted">>, NULL, NoDate),
    Listing(T_ob1_pedal, P_0, L_vinted_1, NULL, <<"vinted">>, NULL, NoDate) }

EdgeInputs == UNION {[1..n -> EdgePool] : n \in 1..MaxListings}

\* the sources that have a search method in a ScrapingService of the repository
Scrapers == {"ebay", "gumtree", "facebook", "cashConverters"}

\* what each of them returns, called as a method with no ScrapingBee key set
ScraperInputs == {ScraperMethod(k, TRUE, RAW_ob1_pedal).value : k \in Scrapers}

RankInputs ==
  UNION {[1..n -> Pool] : n \in 0..MaxListings}
    \cup {Batch} \cup {Batch \o <<l>> : l \in Pool}
    \cup PriceTriples \cup EdgeInputs \cup ScraperInputs

\* the enhanced queries enhanceSearchQuery gives for the drawn search term
RankQueries ==
  { enhanceSearchQuery(TRUE,
      Completion("parsed", NULL, <<X_OB1>>, <<X_pedal>>, NULL, NoFlags), RAW_ob1_pedal).value,
    enhanceSearchQuery(TRUE,
      Completion("parsed", NULL, <<X_OB1, X_pedal>>, <<X_pedal>>, NULL, NoFlags),
      RAW_ob1_pedal).value }

InitRank ==
  /\ hasKey = TRUE
  /\ registered = {"ebay", "gumtree", "facebook"}
  /\ Idle
  /\ conv = NoConv
  /\ enh = NoEnh
  /\ runs = NoRuns
  /\ \E in \in RankInputs, q \in RankQueries :
       rank = [stage |-> "input", searchTerm |-> RAW_ob1_pedal, eq |-> q,
               nowH |-> RankNow, input |-> in, unique |-> <<>>, scored |-> <<>>,
               final |-> <<>>]

\* step 4
Deduplicate ==
  /\ rank.stage = "input"
  /\ rank' = [rank EXCEPT !.stage = "deduped", !.unique = Dedupe(rank.input)]
  /\ UNCHANGED <<service, conv, enh, runs>>

\* steps 5 and 6
Score ==
  /\ rank.stage = "deduped"
  /\ rank' = [rank EXCEPT !.stage = "scored",
                          !.scored = ScoreAll(rank.unique, rank.searchTerm, rank.eq,
                                              rank.nowH)]
  /\ UNCHANGED <<service, conv, enh, runs>>

\* step 7
SortAndLimit ==
  /\ rank.stage = "scored"
  /\ rank' = [rank EXCEPT !.stage = "ranked", !.final = SortLimit(rank.scored)]
  /\ UNCHANGED <<service, conv, enh, runs>>

NextRank ==
  \/ Deduplicate
  \/ Score
  \/ SortAndLimit

SpecRank == InitRank /\ [][NextRank]_vars

(***************************************************************************)
(* convertCurrency applied to a listing priced in whole pounds, and then   *)
(* to its own result with the first currency as the target.                *)
(***************************************************************************)
MaxAmount == 60

InitConv ==
  /\ hasKey = TRUE
  /\ registered = {"ebay", "gumtree", "facebook"}
  /\ Idle
  /\ rank = NoRank
  /\ enh = NoEnh
  /\ runs = NoRuns
  /\ \E n \in 0..MaxAmount :
       conv = [stage |-> "input", amount |-> n,
               listing |-> Listing(T_ob1_pedal, <<POUND>> \o NatToString(n), L_ebay_1,
                                   NULL, <<"ebay">>, NULL, NoDate),
               there |-> <<>>, back |-> <<>>]

\* convertCurrency(results, 'USD')
ConvertToUSD ==
  /\ conv.stage = "input"
  /\ conv' = [conv EXCEPT !.stage = "there",
                          !.there = convertCurrency(<<conv.listing>>, "USD")]
  /\ UNCHANGED <<service, rank, enh, runs>>

\* convertCurrency(results, 'GBP') on the converted listing
ConvertToGBP ==
  /\ conv.stage = "there"
  /\ conv' = [conv EXCEPT !.stage = "back",
                          !.back = convertCurrency(conv.there, "GBP")]
  /\ UNCHANGED <<service, rank, enh, runs>>

NextConv ==
  \/ ConvertToUSD
  \/ ConvertToGBP

SpecConv == InitConv /\ [][NextConv]_vars

(***************************************************************************)
(* convertCurrency applied to drawn results and a drawn target currency.   *)
(***************************************************************************)
P_free == <<"F", "r", "e", "e">>
P_eur_5 == <<EURO, "5">>
P_1200_50 == <<POUND, "1", ",", "2", "0", "0", ".", "5", "0">>

\* the price strings of the drawn results; a listing may have no price
PricePool == <<P_POA, P_free, P_280, P_usd_99, P_eur_5, P_1200_50, <<>>, NULL>>

\* the targetCurrency values; the rates table knows nothing of JPY
Targets == {"GBP", "USD", "EUR", "JPY"}

\* the drawn results hold at most MaxPrices listings
MaxPrices == 2

\* a listing of finalResults: scored, with its priceAmount
PricedListing(i) ==
  WithScore(WithPriceAmount(
              Listing(T_ob1_pedal, PricePool[i], L_ebay_1, NULL, <<"ebay">>, NULL, NoDate),
              parsePriceNumber(PricePool[i])),
            40 + i)

InitPrices ==
  /\ hasKey = TRUE
  /\ registered = {"ebay", "gumtree", "facebook"}
  /\ Idle
  /\ rank = NoRank
  /\ enh = NoEnh
  /\ runs = NoRuns
  /\ \E n \in 1..MaxPrices, target \in Targets :
       \E f \in [1..n -> DOMAIN PricePool] :
         conv = [stage |-> "results", target |-> target,
                 results |-> [k \in 1..n |-> PricedListing(f[k])], converted |-> <<>>]

\* const converted = this.convertCurrency(finalResults, currency)
Convert ==
  /\ conv.stage = "results"
  /\ conv' = [conv EXCEPT !.stage = "converted",
                          !.converted = convertCurrency(conv.results, conv.target)]
  /\ UNCHANGED <<service, rank, enh, runs>>

NextPrices ==
  \/ Convert

SpecPrices == InitPrices /\ [][NextPrices]_vars

(***************************************************************************)
(* Steps 4 to 6 of performSearch applied twice to the same allResults,     *)
(* search term and enhanced query, the clock moving in between.            *)
(***************************************************************************)
\* the drawn inputs hold at most MaxRunListings listings of the pool
MaxRunListings == 2

\* by how many hours the clock may move between the two runs
ClockSteps == {12, 36, 240}

InitRuns ==
  /\ hasKey = TRUE
  /\ registered = {"ebay", "gumtree", "facebook"}
  /\ Idle
  /\ rank = NoRank
  /\ conv = NoConv
  /\ enh = NoEnh
  /\ \E n \in 1..MaxRunListings, q \in RankQueries :
       \E in \in [1..n -> Pool] :
         runs = [stage |-> "input", searchTerm |-> RAW_ob1_pedal, eq |-> q, input |-> in,
                 clock |-> RankNow, first |-> <<>>, second |-> <<>>]

\* the first performSearch scores the listings
FirstRun ==
  /\ runs.stage = "input"
  /\ runs' = [runs EXCEPT !.stage = "first",
                          !.first = ScoreAll(Dedupe(runs.input), runs.searchTerm, runs.eq,
                                             runs.clock)]
  /\ UNCHANGED <<service, rank, conv, enh>>

\* time passes
ClockAdvances ==
  /\ runs.stage = "first"
  /\ \E d \in ClockSteps :
       runs' = [runs EXCEPT !.stage = "later", !.clock = runs.clock + d]
  /\ UNCHANGED <<service, rank, conv, enh>>

\* the second performSearch scores the same listings
SecondRun ==
  /\ runs.stage = "later"
  /\ runs' = [runs EXCEPT !.stage = "second",
                          !.second = ScoreAll(Dedupe(runs.input), runs.searchTerm, runs.eq,
                                              runs.clock)]
  /\ UNCHANGED <<service, rank, conv, enh>>

NextRuns ==
  \/ FirstRun
  \/ ClockAdvances
  \/ SecondRun

SpecRuns == InitRuns /\ [][NextRuns]_vars

(***************************************************************************)
(* The fan-out of one search and its await: the promises of                *)
(* searchPromises settle in any order, the order of completion is kept.    *)
(***************************************************************************)
\* the sources an allow-list of the drawn searches may name
OrderKeys == {"vinted", "googleShopping", "ebay"}

\* the allow-list of a drawn search names at most MaxOrderSources sources
MaxOrderSources == 2

\* the allow-lists, without repetition
OrderAllowLists ==
  UNION { {l \in [1..n -> OrderKeys] : \A i, j \in 1..n : i # j => l[i] # l[j]} :
            n \in 1..MaxOrderSources }

\* the sources scrapingService defines in the drawn searches
OrderRegistry == {"ebay", "gumtree", "facebook", "vinted", "googleShopping", "depop", "discogs"}

\* the enhanced query of the drawn searches: one expansion next to the term
OrderQueries ==
  { enhanceSearchQuery(TRUE,
      Completion("parsed", NULL, <<X_OB1>>, <<X_pedal>>, NULL, NoFlags), RAW_ob1_pedal).value }

\* the results in completion order
GatherByCompletion(cs, order) == [k \in DOMAIN order |-> cs[order[k]]]

\* Promise.allSettled(searchPromises): the results are in the order of the
\* promises given, whatever the order they settled in
Gather(cs, order) == cs

InitOrder ==
  /\ hasKey = TRUE
  /\ registered = OrderRegistry
  /\ Idle
  /\ rank = NoRank
  /\ conv = NoConv
  /\ enh = NoEnh
  /\ \E l \in OrderAllowLists, q \in OrderQueries, cur \in {"GBP", "USD"} :
       runs = [stage |-> "awaiting",
               args |-> [searchTerm |-> RAW_ob1_pedal, currency |-> cur, sources |-> l],
               eq |-> q,
               calls |-> FanOut(allSearchTerms(RAW_ob1_pedal, q),
                                getActiveSources(registered, l)),
               order |-> <<>>,
               result |-> Settled("pending", <<>>)]

\* one promise settles, after those that settled before
SettleNext ==
  /\ runs.stage = "awaiting"
  /\ \E i \in DOMAIN runs.calls :
       /\ ~runs.calls[i].done
       /\ LET c == runs.calls[i]
              outcome == Invoke(c.key, c.term)
              s == Contribution(outcome)
          IN  runs' = [runs EXCEPT !.calls[i] =
                                     [term |-> c.term, key |-> c.key, done |-> TRUE,
                                      outcome |-> outcome.kind, status |-> s.status,
                                      value |-> s.value],
                                   !.order = Append(runs.order, i)]
  /\ UNCHANGED <<service, rank, conv, enh>>

\* performSearch resumes with the settled results and runs steps 4 to 8
ResumeInOrder ==
  /\ runs.stage = "awaiting"
  /\ \A i \in DOMAIN runs.calls : runs.calls[i].done
  /\ runs' = [runs EXCEPT !.stage = "settled",
                          !.result = Finish(Gather(runs.calls, runs.order), runs.args,
                                            runs.eq, now)]
  /\ UNCHANGED <<service, rank, conv, enh>>

NextOrder ==
  \/ SettleNext
  \/ ResumeInOrder

SpecOrder == InitOrder /\ [][NextOrder]_vars

(***************************************************************************)
(* enhanceSearchQuery applied to a drawn search term and a drawn           *)
(* completion, and the working term list built from its result.            *)
(***************************************************************************)
X_ob1 == <<"o", "b", "1">>
X_gearspace == <<"g", "e", "a", "r", "s", "p", "a", "c", "e">>

\* the search terms performSearch is called with
EnhTerms == {RAW_ob1_pedal, X_ob1, W_iphone}

\* the search_terms field of a parsed completion: missing, no array, empty,
\* holding only an empty string, one term, a term twice, nine terms
ParsedTerms ==
  << NULL, NotAnArray, <<>>, <<<<>>>>, <<X_OB1>>, <<X_OB1, X_pedal, X_OB1>>,
     <<W_guitar, W_bass, W_amp, W_pedal, W_synth, W_car, W_vehicle, W_macbook, W_rolex>> >>

\* its categories, forums and flags fields: missing or given
ParsedCategories == <<NULL, <<X_pedal>>>>
ParsedForums == <<NULL, <<X_gearspace>>>>
ParsedFlags == <<AbsentFlags, Flags(TRUE, FALSE, FALSE, FALSE)>>

\* what the completion request can come to
EnhCompletion(k, t, c, f, fl) ==
  IF k = "parsed"
  THEN Completion(k, NULL, ParsedTerms[t], ParsedCategories[c], ParsedForums[f],
                  ParsedFlags[fl])
  ELSE Completion(k, NULL, NULL, NULL, NULL, NoFlags)

InitEnhance ==
  /\ hasKey \in BOOLEAN
  /\ registered = {"ebay", "gumtree", "facebook"}
  /\ Idle
  /\ rank = NoRank
  /\ conv = NoConv
  /\ runs = NoRuns
  /\ \E term \in EnhTerms,
        k \in (IF hasKey THEN {"error", "empty", "unparseable", "parsed"} ELSE {"none"}),
        t \in DOMAIN ParsedTerms, c \in DOMAIN ParsedCategories,
        f \in DOMAIN ParsedForums, fl \in DOMAIN ParsedFlags :
       /\ k # "parsed" => (t = 1 /\ c = 1 /\ f = 1 /\ fl = 1)
       /\ enh = [stage |-> "input", searchTerm |-> term,
                 completion |-> EnhCompletion(k, t, c, f, fl), out |-> NoEQ,
                 terms |-> <<>>, asked |-> <<>>, answers |-> <<>>]

\* enhancedQuery = await openaiService.enhanceSearchQuery(searchTerm)
Enhance ==
  /\ enh.stage = "input"
  /\ enh' = [enh EXCEPT !.stage = "enhanced",
                        !.out = enhanceSearchQuery(hasKey, enh.completion,
                                                   enh.searchTerm).value]
  /\ UNCHANGED <<service, rank, conv, runs>>

\* const allSearchTerms = [searchTerm, ...expansions] ... .slice(0, 5)
BuildTerms ==
  /\ enh.stage = "enhanced"
  /\ enh' = [enh EXCEPT !.stage = "terms",
                        !.terms = allSearchTerms(enh.searchTerm, enh.out)]
  /\ UNCHANGED <<service, rank, conv, runs>>

NextEnhance ==
  \/ Enhance
  \/ BuildTerms

SpecEnhance == InitEnhance /\ [][NextEnhance]_vars

(***************************************************************************)
(* getFallbackEnhancement called again and again in one process.           *)
(***************************************************************************)
\* the terms the fallback is asked to expand
ExpandTerms == <<NULL, X_ob1, RAW_ob1_pedal, W_iphone, W_car>>

\* at most MaxExpands calls are made
MaxExpands == 3

InitExpand ==
  /\ hasKey \in BOOLEAN
  /\ registered = {"ebay", "gumtree", "facebook"}
  /\ Idle
  /\ rank = NoRank
  /\ conv = NoConv
  /\ runs = NoRuns
  /\ enh = [stage |-> "expand", searchTerm |-> NULL, completion |-> NoCompletion,
            out |-> NoEQ, terms |-> <<>>, asked |-> <<>>, answers |-> <<>>]

Expand ==
  /\ enh.stage = "expand"
  /\ Len(enh.asked) < MaxExpands
  /\ \E i \in DOMAIN ExpandTerms :
       enh' = [enh EXCEPT !.asked = Append(enh.asked, ExpandTerms[i]),
                          !.answers = Append(enh.answers,
                                             FallbackCall(ExpandTerms[i], enh.asked))]
  /\ UNCHANGED <<service, rank, conv, runs>>

NextExpand == Expand

SpecExpand == InitExpand /\ [][NextExpand]_vars

(***************************************************************************)
(* Properties of the running service.                                      *)
(***************************************************************************)
\* performSearch of request r has settled
Done(r) == pc[r] \in {"settled", "responded"} /\ args[r] # NoArgs

\* the invocation behind a promise threw, rejected, or returned no array
Failed(c) == c.outcome \in {"throw", "reject", "nonarray"}

\* the entries an invocation returns that carry a title and a link
Usable(key, term) ==
  LET out == Invoke(key, term)
  IN  IF out.kind # "array" THEN <<>>
      ELSE SelectSeq(DropNullEntries(out.value),
                     LAMBDA e : Truthy(e.title) /\ Truthy(e.link))

\* listing e is among items, as itself or as the earlier listing with its
\* normalized title and host
Represented(e, items) ==
  \E k \in DOMAIN items :
    /\ normalizeText(items[k].title) = normalizeText(e.title)
    /\ extractDomain(items[k].link) = extractDomain(e.link)

\* no invocation of r returned a listing whose title is no string
WellFormed(r) ==
  \A i \in DOMAIN calls[r] :
    \A e \in Range(Usable(calls[r][i].key, calls[r][i].term)) : e.title # NumberTitle

\* C1: in the fan-out a failed invocation (throw, rejection, non-array
\* return) settles as a fulfilled promise with the empty contribution, and
\* the search still resolves with every listing the other invocations
\* returned represented in its result.
C1_FailureIsolated ==
  \A r \in Req :
    /\ \A i \in DOMAIN calls[r] :
         (calls[r][i].done /\ Failed(calls[r][i]))
           => (calls[r][i].status = "fulfilled" /\ calls[r][i].value = <<>>)
    /\ (Done(r) /\ calls[r] # <<>> /\ WellFormed(r))
         => /\ result[r].status = "fulfilled"
            /\ \A i \in DOMAIN calls[r] :
                 \A e \in Range(Usable(calls[r][i].key, calls[r][i].term)) :
                   Represented(e, result[r].value)

\* a search in which one invocation threw, one rejected and one returned no
\* array has resolved with listings
C1_Witness ==
  \E r \in Req :
    /\ Done(r)
    /\ {"throw", "reject", "nonarray"} \subseteq {calls[r][i].outcome : i \in DOMAIN calls[r]}
    /\ result[r].status = "fulfilled"
    /\ result[r].value # <<>>

\* every invocation of r failed or returned the empty sequence
AllFailOrEmpty(r) ==
  \A i \in DOMAIN calls[r] :
    \/ Failed(calls[r][i])
    \/ Invoke(calls[r][i].key, calls[r][i].term) = Outcome("array", <<>>)

\* C2: if every source invocation throws, rejects or returns the empty
\* sequence, performSearch resolves with [] and does not throw.
C2_AllFailGivesEmpty ==
  \A r \in Req :
    (Done(r) /\ calls[r] # <<>> /\ AllFailOrEmpty(r))
      => result[r] = Settled("fulfilled", <<>>)

\* a search whose invocations all threw or returned [] has resolved with []
C2_Witness ==
  \E r \in Req :
    /\ Done(r)
    /\ calls[r] # <<>>
    /\ AllFailOrEmpty(r)
    /\ \E i \in DOMAIN calls[r] : calls[r][i].outcome = "throw"
    /\ \E i \in DOMAIN calls[r] : calls[r][i].outcome = "array"
    /\ result[r] = Settled("fulfilled", <<>>)

\* C3: the enhancedQuery a handler reads back with getLastEnhancedQuery()
\* after its own performSearch is the one computed for its own request,
\* whatever other request overlaps with it.
C3_ReadsOwnEnhancedQuery ==
  \A r \in Req :
    response[r].status = 200 => response[r].enhancedQuery = enhancedQuery[r]

\* C9: with zero active sources performSearch fails (its promise rejects)
\* instead of returning a normal result.
C9_ZeroSourcesHardFailure ==
  \A r \in Req :
    (Done(r) /\ getActiveSources(registered, args[r].sources) = <<>>)
      => result[r].status = "rejected"

\* the enhancement collaborator failed for request r
EnhancementFailed(r) ==
  \/ ~hasKey
  \/ completion[r].kind \in {"error", "empty", "unparseable"}

\* the (term, source) pairs of the fan-out, in push order
Pairs(cs) == [i \in DOMAIN cs |-> <<cs[i].term, cs[i].key>>]

\* C10: when the enhancement collaborator fails (no key, request error,
\* empty or unparseable completion) the search uses
\* getFallbackEnhancement(term), fans out over its terms, and its failure is
\* not what performSearch settles with.
C10_EnhancementFailureRecovered ==
  \A r \in Req :
    (pc[r] \in {"awaiting", "settled", "responded"} /\ args[r] # NoArgs
       /\ EnhancementFailed(r))
      => LET fb == getFallbackEnhancement(args[r].searchTerm)
             active == getActiveSources(registered, args[r].sources)
         IN  /\ enhancedQuery[r] = fb
             /\ active # <<>>
                  => Pairs(calls[r])
                       = Pairs(FanOut(allSearchTerms(args[r].searchTerm, fb), active))
             /\ result[r].status = "rejected" => ~WellFormed(r)

\* a search whose completion request failed has fanned out over the fallback
\* terms and resolved with listings
C10_Witness ==
  \E r \in Req :
    /\ Done(r)
    /\ hasKey
    /\ completion[r].kind = "error"
    /\ Len(calls[r]) >= TermCap
    /\ result[r].status = "fulfilled"
    /\ result[r].value # <<>>

\* C20: a search that has fanned out has invoked the source capability
\* exactly once for every pair of a working term and an active source, and
\* for no other pair; the invocations are all issued in the step that ends
\* in the await.
C20_EachPairInvokedOnce ==
  \A r \in Req :
    (pc[r] \in {"awaiting", "settled", "responded"} /\ args[r] # NoArgs)
      => LET terms == allSearchTerms(args[r].searchTerm, enhancedQuery[r])
             active == getActiveSources(registered, args[r].sources)
             cs == calls[r]
         IN  /\ \A i \in DOMAIN cs :
                  cs[i].term \in Range(terms) /\ cs[i].key \in Range(active)
             /\ \A t \in Range(terms), k \in Range(active) :
                  Cardinality({i \in DOMAIN cs : cs[i].term = t /\ cs[i].key = k}) = 1

\* C21: performSearch has not gone on to deduplication, nor settled, while an
\* issued source invocation is pending; and, the completion request and every
\* source invocation settling in the end, a performSearch that was started
\* settles in the end.
C21_WaitsForAllThenSettles ==
  /\ [](\A r \in Req : result[r].status # "pending" => EverySourceSettled(r))
  /\ \A r \in Req : (pc[r] = "enhancing") ~> (result[r].status # "pending")

\* a search has settled after all its invocations, one of which failed, while
\* the other search still waits for its own
C21_Witness ==
  \E r, q \in Req :
    /\ pc[r] = "settled"
    /\ Len(calls[r]) >= 2
    /\ EverySourceSettled(r)
    /\ \E i \in DOMAIN calls[r] : Failed(calls[r][i])
    /\ pc[q] = "awaiting"
    /\ ~EverySourceSettled(q)

\* the keys of the sources request r has invoked
Invoked(r) == {calls[r][i].key : i \in DOMAIN calls[r]}

\* options.sources of request r is an array with an entry
HasAllowList(r) ==
  /\ args[r].sources # Absent
  /\ args[r].sources # NotAnArray
  /\ args[r].sources # <<>>

\* C24: a search with a non-empty allow-list invokes the registered sources
\* whose key matches an entry of the list, letter case aside, and no other;
\* a search whose options.sources is absent, no array or empty invokes all
\* registered sources.
C24_AllowListSelectsSources ==
  \A r \in Req :
    (pc[r] \in {"awaiting", "settled", "responded"} /\ args[r] # NoArgs)
      => IF HasAllowList(r)
         THEN Invoked(r)
                = {k \in registered :
                     \E i \in DOMAIN args[r].sources :
                       LowerWord(args[r].sources[i]) = LowerWord(k)}
         ELSE Invoked(r) = registered

\* a search named two of the seven registered sources, one of them in
\* capitals, and has invoked these two
C24_Witness ==
  \E r \in Req :
    /\ pc[r] = "settled"
    /\ args[r].sources = <<"depop", "EBAY">>
    /\ Invoked(r) = {"depop", "ebay"}
    /\ Cardinality(registered) > Cardinality(Invoked(r))

\* C30: a source function that returns listings when called as a method of
\* scrapingService contributes the same listings when performSearch invokes
\* it through the reference collected in getActiveSources: with no
\* ScrapingBee key, a search over the registered scrapers resolves with a
\* non-empty list that holds their mock listings.
C30_DetachedScrapersContribute ==
  \A r \in Req :
    (Done(r) /\ Invoked(r) # {} /\ Invoked(r) \subseteq SrcDefined)
      => /\ \A i \in DOMAIN calls[r] :
              calls[r][i].value = ScraperMethod(calls[r][i].key, TRUE, calls[r][i].term).value
         /\ result[r].status = "fulfilled"
         /\ result[r].value # <<>>
         /\ \A key \in Invoked(r) :
              \E k \in DOMAIN result[r].value :
                result[r].value[k].link = MockResults(key, args[r].searchTerm)[1].link


(***************************************************************************)
(* Properties of deduplication, scoring, sorting and conversion.           *)
(***************************************************************************)
\* the identity key of a raw listing, as step 4 takes it
KeyOf(e) == uniqKey(e.title, e.price, e.link)

\* step 4 looks at a listing only if it has a title and a link
Eligible(e) == Truthy(e.title) /\ Truthy(e.link)

\* the positions of the input whose listing is eligible and whose identity
\* key occurs at no earlier eligible position, in increasing order
FirstOccurrences(in) ==
  SelectIdx(in,
            [i \in DOMAIN in |->
               /\ Eligible(in[i])
               /\ \A j \in 1..(i - 1) : Eligible(in[j]) => KeyOf(in[j]) # KeyOf(in[i])],
            1)

\* a deduplicated listing without the priceAmount step 4 adds
Raw(u) == Listing(u.title, u.price, u.link, u.image, u.source, u.description, u.postedAt)

\* C4: deduplication keeps, in input order, exactly the first occurrence of
\* each identity key among the listings that have a title and a link: the
\* output is a subsequence of the input, no longer than it, and no two of
\* its listings share an identity key.
C4_DedupeFirstSeenWins ==
  rank.stage \in {"deduped", "scored", "ranked"}
    => LET in == rank.input
           out == rank.unique
           first == FirstOccurrences(in)
       IN  /\ Len(out) <= Len(in)
           /\ Len(out) = Len(first)
           /\ \A k \in DOMAIN out : Raw(out[k]) = in[first[k]]
           /\ \A a, b \in DOMAIN out : a # b => KeyOf(out[a]) # KeyOf(out[b])

\* an input in which a later listing with other title, price and link text
\* has the identity key of an earlier one, and a listing on another host is
\* kept next to them
C4_Witness ==
  /\ rank.stage = "deduped"
  /\ \E i, j \in DOMAIN rank.input :
       /\ i < j
       /\ Eligible(rank.input[i])
       /\ Eligible(rank.input[j])
       /\ KeyOf(rank.input[i]) = KeyOf(rank.input[j])
       /\ rank.input[i].title # rank.input[j].title
       /\ rank.input[i].price # rank.input[j].price
       /\ rank.input[i].link # rank.input[j].link
  /\ Len(rank.unique) = 2
  /\ normalizeText(rank.unique[1].title) = normalizeText(rank.unique[2].title)
  /\ extractDomain(rank.unique[1].link) # extractDomain(rank.unique[2].link)

Pos(S, x) == CHOOSE k \in DOMAIN S : S[k] = x

\* C6: the result is in non-increasing score order, holds at most 40
\* listings, holds the 40 highest-scored deduplicated listings when there
\* are more than 40, and keeps listings of equal score in their order in the
\* scored (fan-out) sequence.
C6_SortedTopStable ==
  rank.stage = "ranked"
    => LET S == rank.scored
           F == rank.final
       IN  /\ \A i, j \in DOMAIN F : i < j => F[i].score >= F[j].score
           /\ Len(F) = Min(MaxResults, Len(S))
           /\ Range(F) \subseteq Range(S)
           /\ \A i, j \in DOMAIN F : i # j => F[i] # F[j]
           /\ \A x \in Range(S) \ Range(F) : \A f \in Range(F) :
                \/ x.score < f.score
                \/ x.score = f.score /\ Pos(S, f) < Pos(S, x)
           /\ \A i, j \in DOMAIN F :
                (i < j /\ F[i].score = F[j].score) => Pos(S, F[i]) < Pos(S, F[j])

\* more than 40 deduplicated listings were ranked, two of the 40 returned
\* have the same score and two have different scores
C6_Witness ==
  /\ rank.stage = "ranked"
  /\ Len(rank.scored) > MaxResults
  /\ Len(rank.final) = MaxResults
  /\ \E i, j \in DOMAIN rank.final : i # j /\ rank.final[i].score = rank.final[j].score
  /\ \E i, j \in DOMAIN rank.final : rank.final[i].score # rank.final[j].score

\* the title holds the original query string verbatim
Verbatim(x) == Includes(normalizeText(x.title), normalizeText(rank.searchTerm))

\* the query tokens, enhanced terms and categories scoring looks for
Sought ==
  Range(FilterBoolean(SplitSpace(normalizeText(rank.searchTerm), <<>>)))
    \cup Range(FilterBoolean(MapNormalize(OrEmpty(rank.eq.search_terms))))
    \cup Range(FilterBoolean(MapNormalize(OrEmpty(rank.eq.categories))))

\* x and y differ in nothing scoring looks at but the wording of the title:
\* same term hits in the title, same title length class, same description,
\* image, price, postedAt and source
OtherwiseIdentical(x, y) ==
  /\ \A t \in Sought :
       Includes(normalizeText(x.title), t) <=> Includes(normalizeText(y.title), t)
  /\ (Len(x.title) < TitleShort) <=> (Len(y.title) < TitleShort)
  /\ x.description = y.description
  /\ x.image = y.image
  /\ x.price = y.price
  /\ x.postedAt = y.postedAt
  /\ x.source = y.source
  /\ extractDomain(x.link) = extractDomain(y.link)

Shown(price) == parsePriceNumber(price).v

\* C8: a whole-pound price converted to USD and then converted back to GBP
\* shows an amount within 1 unit of the original.
C8_RoundTripWithinOneUnit ==
  conv.stage = "back"
    => Abs(Shown(conv.back[1].price) - 100 * conv.amount) <= 100


(***************************************************************************)
(* Properties of query enhancement and of the working term list.           *)
(***************************************************************************)
\* the usable entries of a field of the parsed completion (none when the
\* field is missing or no array)
Given(v) == IF IsArray(v) THEN FilterBoolean(v) ELSE <<>>

\* no entry of xs occurs in it twice
NoDuplicates(xs) == \A i, j \in DOMAIN xs : i # j => xs[i] # xs[j]

\* the completion was parsed and its search_terms array holds no usable term
ZeroUsableTerms ==
  /\ hasKey
  /\ enh.completion.kind = "parsed"
  /\ IsArray(enh.completion.search_terms)
  /\ Given(enh.completion.search_terms) = <<>>

\* C11: for a parsed completion with zero usable search terms the result is
\* a merge: search_terms is the union of the fallback's and the
\* collaborator's terms, and categories, forums and flags are the
\* collaborator's where it supplied them and the fallback's where it
\* supplied none.
C11_ZeroTermsMerge ==
  (enh.stage \in {"enhanced", "terms"} /\ ZeroUsableTerms)
    => LET fb == getFallbackEnhancement(enh.searchTerm)
           c == enh.completion
       IN  /\ Range(enh.out.search_terms)
                = Range(fb.search_terms) \cup Range(Given(c.search_terms))
           /\ enh.out.categories
                = (IF Given(c.categories) # <<>> THEN Given(c.categories) ELSE fb.categories)
           /\ enh.out.forums
                = (IF Given(c.forums) # <<>> THEN Given(c.forums) ELSE fb.forums)
           /\ enh.out.flags = (IF c.flags # AbsentFlags THEN c.flags ELSE fb.flags)

\* C12: a parsed completion whose search_terms field is missing or is no
\* array makes enhanceSearchQuery return exactly
\* getFallbackEnhancement(term).
C12_MalformedTermsFullFallback ==
  (enh.stage \in {"enhanced", "terms"} /\ hasKey /\ enh.completion.kind = "parsed"
     /\ ~IsArray(enh.completion.search_terms))
    => enh.out = getFallbackEnhancement(enh.searchTerm)

\* C13: the working term list is [term] ++ enhancedQuery.search_terms with
\* later repetitions removed, in order, capped at 5: the original term comes
\* first and no term occurs twice.
C13_WorkingTermsDeduplicated ==
  enh.stage = "terms"
    => /\ enh.terms = Slice(Unique(<<enh.searchTerm>> \o enh.out.search_terms), TermCap)
       /\ NoDuplicates(enh.terms)

\* C18: every EnhancedQuery enhanceSearchQuery returns has at most 8
\* search_terms and no term twice.
C18_AtMostEightDistinctTerms ==
  enh.stage \in {"enhanced", "terms"}
    => /\ Len(enh.out.search_terms) <= EnhanceCap
       /\ NoDuplicates(enh.out.search_terms)


(***************************************************************************)
(* Properties of convertCurrency on mixed results.                         *)
(***************************************************************************)
\* the price string holds a number parsePriceNumber finds
Parsable(price) == parsePriceNumber(price).ok

\* the rates table has an entry for the listing's detected currency and the
\* target
HasRate(price, target) == Rate(DetectCurrency(price), target) # 0

\* C14: convertCurrency returns unmodified every listing whose price holds
\* no parsable number and every listing without a rate entry for (detected
\* currency, target); only a listing with a parsed amount and a rate entry
\* gets a rewritten price.
C14_UnpricedPassThrough ==
  conv.stage = "converted"
    => /\ Len(conv.converted) = Len(conv.results)
       /\ \A i \in DOMAIN conv.results :
            LET r == conv.results[i]
            IN  /\ (~Parsable(r.price) \/ ~HasRate(r.price, conv.target))
                     => conv.converted[i] = r
                /\ conv.converted[i] # r
                     => (Parsable(r.price) /\ HasRate(r.price, conv.target))

\* C29: convertCurrency returns, for every target, a sequence of the same
\* length and order whose listings differ from the given ones in the price
\* field at most (title, link, source, score and the rest are kept); for the
\* target GBP it returns what it was given.
C29_OnlyPriceRewritten ==
  conv.stage = "converted"
    => /\ Len(conv.converted) = Len(conv.results)
       /\ \A i \in DOMAIN conv.results :
            [conv.converted[i] EXCEPT !.price = conv.results[i].price] = conv.results[i]
       /\ conv.target = "GBP" => conv.converted = conv.results

\* two listings converted to USD: the price of the first is rewritten, the
\* second, which has no price, is returned as it is
C29_Witness ==
  /\ conv.stage = "converted"
  /\ conv.target = "USD"
  /\ Len(conv.results) = 2
  /\ conv.results[1].price = P_280
  /\ conv.converted[1].price = <<DOLLAR, "3", "5", "6">>
  /\ conv.converted[1].score = conv.results[1].score
  /\ conv.results[2].price = NULL
  /\ conv.converted[2] = conv.results[2]


Variants(t) ==
  << [words |-> {W_iphone, W_apple}, terms |-> {t \o S_unlocked, t \o S_refurbished}],
     [words |-> {W_guitar, W_bass, W_amp, W_pedal, W_synth},
      terms |-> {t \o (<<" ">> \o W_vintage), t \o S_electric}],
     [words |-> {W_car, W_vehicle},
      terms |-> {t \o S_low_mileage, t \o S_service_history}] >>

\* C25: the search_terms of getFallbackEnhancement start with the trimmed
\* term and the four fixed paraphrases, hold no duplicates and at most 6
\* entries, and hold the domain-specific variants of a term that matches a
\* domain pattern (for a term with 'iphone', both '<term> unlocked' and
\* '<term> refurbished').
C25_FallbackTermsWithVariants ==
  \A i \in DOMAIN enh.asked :
    LET t == trim(OrEmpty(enh.asked[i]))
        st == enh.answers[i].search_terms
    IN  t # <<>>
          => /\ Len(st) <= FallbackCap
             /\ NoDuplicates(st)
             /\ Len(st) >= 5
             /\ SubSeq(st, 1, 5)
                  = <<t, S_used \o t, t \o S_second_hand, t \o S_pre_owned,
                      t \o S_secondhand>>
             /\ \A v \in DOMAIN Variants(t) :
                  TestAny(toLowerCase(t), Variants(t)[v].words)
                    => Variants(t)[v].terms \subseteq Range(st)

(***************************************************************************)
(* Properties of the price component and of incomplete listings.           *)
(***************************************************************************)
\* the deduplicated listings are three, priced 100, 150 and 5000
IsPriceTriple ==
  /\ Len(rank.unique) = Cardinality(TriplePrices)
  /\ {rank.unique[i].price : i \in DOMAIN rank.unique} = TriplePrices

\* the price-closeness component of a deduplicated listing is 0
PriceComponentZero(u) ==
  LET c == priceClosenessScore(u.priceAmount, median(PriceNums(rank.unique)))
  IN  ~c.neutral /\ c.med > 0 /\ c.diff >= c.med

\* what a listing scores apart from price: the term-match component (the
\* clamped accumulator), recency and source trust, in two-hundredths
OtherComponents(u) ==
  Min(100, Max(0, matchScore(u, rank.searchTerm, rank.eq)))
    + 2 * recencyScore(u.postedAt, rank.nowH)
    + SourceWeight(IF Truthy(u.source) THEN u.source ELSE extractDomain(u.link))

\* the term-match component of a deduplicated listing
MatchComponent(u) == Min(100, Max(0, matchScore(u, rank.searchTerm, rank.eq)))

\* C16 as stated: of three listings priced 100, 150 and 5000, the 5000
\* listing has price-closeness 0 and is ranked below both others, even when
\* its term-match component is stronger than theirs.
C16_OutlierRankedBelowBoth ==
  (rank.stage = "ranked" /\ IsPriceTriple)
    => \A i, j \in DOMAIN rank.scored :
         (rank.scored[i].price = P_5000 /\ i # j)
           => /\ PriceComponentZero(rank.unique[i])
              /\ Pos(rank.final, rank.scored[j]) < Pos(rank.final, rank.scored[i])

\* C16 as the code has it: the 5000 listing has price-closeness 0, and it is
\* ranked below each of the two others whose remaining components (term
\* match, recency, source trust) are not weaker than its own.
C16_OutlierRankedBelowUnlessStronger ==
  (rank.stage = "ranked" /\ IsPriceTriple)
    => \A i, j \in DOMAIN rank.scored :
         (rank.scored[i].price = P_5000 /\ i # j)
           => /\ PriceComponentZero(rank.unique[i])
              /\ OtherComponents(rank.unique[j]) >= OtherComponents(rank.unique[i])
                   => Pos(rank.final, rank.scored[j]) < Pos(rank.final, rank.scored[i])

\* the 5000 listing came first, matches the query as well as the two others,
\* and is returned last
C16_Witness ==
  /\ rank.stage = "ranked"
  /\ IsPriceTriple
  /\ rank.input[1].price = P_5000
  /\ \A i \in DOMAIN rank.input : rank.input[i].title = T_ob1_pedal
  /\ rank.final[Len(rank.final)].price = P_5000
  /\ PriceComponentZero(rank.unique[1])

\* the listings of an input that have a title and a link
Complete(in) ==
  LET keep == [i \in DOMAIN in |-> Eligible(in[i])]
      idx == SelectIdx(in, keep, 1)
  IN  [k \in DOMAIN idx |-> in[idx[k]]]

\* C17: every listing that enters scoring, and every listing returned, has a
\* non-empty title and a non-empty link; a listing missing either leaves no
\* trace: its identity key shadows no later listing and its price is not in
\* the median, the outcome being that of the input without it.
C17_IncompleteListingsDropped ==
  /\ \A k \in DOMAIN rank.unique : Eligible(rank.unique[k])
  /\ \A k \in DOMAIN rank.scored : Eligible(rank.scored[k])
  /\ \A k \in DOMAIN rank.final : Eligible(rank.final[k])
  /\ rank.stage \in {"deduped", "scored", "ranked"}
       => /\ rank.unique = Dedupe(Complete(rank.input))
          /\ \A i \in DOMAIN rank.input :
               (Eligible(rank.input[i])
                  /\ \A h \in 1..(i - 1) :
                       Eligible(rank.input[h]) => KeyOf(rank.input[h]) # KeyOf(rank.input[i]))
                 => \E k \in DOMAIN rank.unique : Raw(rank.unique[k]) = rank.input[i]
  /\ rank.stage \in {"scored", "ranked"}
       => LET complete == Complete(rank.input)
              nums == [k \in DOMAIN complete |-> parsePriceNumber(complete[k].price)]
          IN  \A k \in DOMAIN rank.unique :
                rank.unique[k].priceAmount.ok
                  => \E c \in DOMAIN complete : nums[c] = rank.unique[k].priceAmount

\* a listing without a title precedes a complete listing with the same
\* identity key and a listing without a link carries the highest price: the
\* complete listing is returned and the median is taken of its price alone
C17_Witness ==
  /\ rank.stage = "ranked"
  /\ \E i, j, k \in DOMAIN rank.input :
       /\ i < j
       /\ ~Truthy(rank.input[i].title)
       /\ Eligible(rank.input[j])
       /\ uniqKey(OrEmptyString(rank.input[i].title), rank.input[i].price,
                  rank.input[i].link) = KeyOf(rank.input[j])
       /\ ~Truthy(rank.input[k].link)
       /\ rank.input[k].price = P_5000
  /\ Len(rank.final) = 1
  /\ median(PriceNums(rank.unique)) = parsePriceNumber(rank.final[1].price)

\* C22: with a median, every listing that has a priceAmount gets the
\* price-closeness max(0, 1 - min(1, |price - median| / median)); the neutral
\* 0.5 goes only to a listing without a parsable price, or when there is no
\* median.
C22_ClosenessByFormula ==
  rank.stage \in {"scored", "ranked"}
    => LET med == median(PriceNums(rank.unique))
       IN  \A k \in DOMAIN rank.unique :
             LET amount == rank.unique[k].priceAmount
                 c == priceClosenessScore(amount, med)
             IN  /\ c.neutral => (~amount.ok \/ ~med.ok)
                 /\ (amount.ok /\ med.ok)
                      => /\ ~c.neutral
                         /\ c.diff = Abs(amount.v - med.v)
                         /\ c.med = med.v

\* C23: the reference price of price closeness is the median of the amounts
\* of the deduplicated listings that have one: the middle amount of an odd
\* number of them, the value midway between the two middle amounts of an
\* even number.
C23_ReferenceIsMedian ==
  rank.stage \in {"scored", "ranked"}
    => LET a == SortAsc(PriceNums(rank.unique))
           n == Len(a)
           med == median(PriceNums(rank.unique))
       IN  /\ n = 0 => ~med.ok
           /\ n > 0 => /\ med.ok
                       /\ IF n % 2 = 1 THEN med.v = a[(n + 1) \div 2]
                          ELSE 2 * med.v = a[n \div 2] + a[(n \div 2) + 1]

\* the promises of the drawn search, each settled with what its invocation
\* returns, in push order
SettledInPushOrder ==
  LET cs == FanOut(allSearchTerms(runs.args.searchTerm, runs.eq),
                   getActiveSources(registered, runs.args.sources))
  IN  [i \in DOMAIN cs |->
        LET outcome == Invoke(cs[i].key, cs[i].term)
            s == Contribution(outcome)
        IN  [term |-> cs[i].term, key |-> cs[i].key, done |-> TRUE,
             outcome |-> outcome.kind, status |-> s.status, value |-> s.value]]

\* C26: what performSearch settles with (the deduplicated listings, their
\* first-seen representatives, the scores, the final order) is the same for
\* every order in which the source invocations complete: it is what the
\* invocations' return values give when taken in push order.
C26_CompletionOrderIrrelevant ==
  runs.stage = "settled"
    => runs.result = Finish(SettledInPushOrder, runs.args, runs.eq, now)

\* the invocations completed last-pushed first, two of them returned a
\* listing with the same identity key, and the search resolved with listings
C26_Witness ==
  /\ runs.stage = "settled"
  /\ Len(runs.order) >= 4
  /\ \A k \in 1..(Len(runs.order) - 1) : runs.order[k] > runs.order[k + 1]
  /\ \E i, j \in DOMAIN runs.calls :
       /\ i < j
       /\ runs.calls[i].value # <<>>
       /\ runs.calls[j].value # <<>>
       /\ runs.calls[i].value[1] # runs.calls[j].value[1]
       /\ KeyOf(runs.calls[i].value[1]) = KeyOf(runs.calls[j].value[1])
  /\ runs.result.status = "fulfilled"
  /\ \E k \in DOMAIN runs.result.value :
       runs.result.value[k].link = runs.calls[1].value[1].link
  /\ \A k \in DOMAIN runs.result.value :
       runs.result.value[k].link # runs.calls[2].value[1].link

\* C27: no listing scores above 0.80, the sum of the four weights, so that
\* the upper clamp at 1 never binds; and a listing scores 0.80 only with a
\* saturated term match, a price equal to the median, a postedAt within one
\* day and a source of weight 1.0.
C27_ScoreAtMostEighty ==
  rank.stage \in {"scored", "ranked"}
    => LET med == median(PriceNums(rank.unique))
       IN  \A k \in DOMAIN rank.scored :
             LET u == rank.unique[k]
                 c == priceClosenessScore(u.priceAmount, med)
             IN  /\ rank.scored[k].score <= 80
                 /\ rank.scored[k].score = 80
                      => /\ MatchComponent(u) = 100
                         /\ ~c.neutral /\ c.diff = 0
                         /\ recencyScore(u.postedAt, rank.nowH) = 10
                         /\ SourceWeight(IF Truthy(u.source) THEN u.source
                                         ELSE extractDomain(u.link)) = 10

\* the keys of SOURCE_WEIGHTS, as source identifiers
TableKeys == {<<SourceKeys[i]>> : i \in DOMAIN SourceKeys}

\* C28: the listings of a registered source carry a source identifier that
\* is a key of SOURCE_WEIGHTS and are scored with the coefficient the table
\* has for that source; the default 0.6 is for unregistered sources.
C28_ScoredWithOwnCoefficient ==
  \A key \in Scrapers :
    (rank.stage \in {"scored", "ranked"}
       /\ rank.input = ScraperMethod(key, TRUE, rank.searchTerm).value)
      => LET med == median(PriceNums(rank.unique))
         IN  \A k \in DOMAIN rank.scored :
               LET u == rank.unique[k]
               IN  /\ u.source \in TableKeys
                   /\ rank.scored[k].score
                        = RoundedScore(matchScore(u, rank.searchTerm, rank.eq),
                                       priceClosenessScore(u.priceAmount, med),
                                       recencyScore(u.postedAt, rank.nowH),
                                       SourceWeight(<<key>>))

(***************************************************************************)
(* Properties of scoring over time.                                        *)
(***************************************************************************)
\* C15: two runs over the same term, enhanced query and listings (postedAt
\* included) give every listing the same score, whenever each run executes.
C15_ScoresIndependentOfRunTime ==
  runs.stage = "second" => runs.second = runs.first


=============================================================================
